---- MODULE Spec2Model ----
(***************************************************************************)
(* Verification model of the Zapry agent SDK.                              *)
(*                                                                         *)
(*   SpecLoop     AgentLoop.run, the ReAct loop (agent/loop.py), with the  *)
(*                GuardrailManager input check (guardrails/engine.py)      *)
(*   SpecHandoff  HandoffEngine.handoff with HandoffPolicy and the         *)
(*                IdempotencyCache, two concurrent callers                 *)
(*   SpecMCP      MCPManager: servers, tool conversion, injection, refresh *)
(*   SpecBuffer   ConversationBuffer over a MemoryStore, concurrent tasks  *)
(*   SpecLoopFair AgentLoop.run with an LLM callback that asks for one     *)
(*                tool on every turn, scheduled fairly                     *)
(*   SpecCall     MCPManager._call_tool_direct, the retry loop             *)
(*   SpecStore    MemoryStore lists: append, trim_list, clear_list         *)
(*   SpecLongTerm LongTermMemory: get, save, update, delete                *)
(*   SpecSession  MemorySession over one store, two sessions               *)
(*   SpecGuard    GuardrailManager.check_input, sequential and parallel    *)
(*   SpecSched    ProactiveScheduler: start, stop, the poll loop           *)
(*   SpecOrch     AgentOrchestrator.run, tool_based and coordinator modes  *)
(*   SpecTrace    Tracer: spans entered and left, new traces               *)
(*   SpecStdio    MCPClient._call over one StdioTransport, two tasks       *)
(*   SpecUpd      LongTermMemory.update, two tasks on one instance         *)
(*   SpecTrig     ProactiveScheduler._run_trigger: enablement, send, record*)
(*   SpecExt      MemorySession.extract_if_needed over the buffer          *)
(*   SpecEq       InMemoryStore and SQLiteMemoryStore, the same operations *)
(*                                                                         *)
(* Each specification moves only its own variables.                        *)
(***************************************************************************)
EXTENDS Integers, Sequences, FiniteSets, TLC

(***************************************************************************)
(* Bounds of the model.                                                    *)
(***************************************************************************)
MaxTurnsBound == 2
MaxCalls == 2
MaxTime == 2
CacheTTL == 1
MaxAdds == 3
MaxOps == 4
MaxRetries == 2
MaxGuards == 3
MaxDay == 1
MaxTasks == 2
MaxSends == 2
MaxSelected == 2
MaxSpans == 3
MaxRpcId == 3
MaxBuffered == 6
MaxEqLen == 2

None == "None"

Last(s) == s[Len(s)]

InSeq(x, s) == \E i \in 1..Len(s) : s[i] = x

RECURSIVE SumSeq(_)
SumSeq(s) == IF s = <<>> THEN 0 ELSE Head(s) + SumSeq(Tail(s))

VARIABLES
    \* ---- AgentLoop: construction parameters
    max_turns,        \* AgentLoop.max_turns
    tool_registry,    \* names registered in the ToolRegistry
    hooks,            \* TRUE: every AgentHooks callback is set
    guardrails,       \* the GuardrailManager [set, parallel, input_guards]; set = FALSE: none
    llm_fn,           \* the LLM callback: the tool calls its responses are made of
    system_prompt,    \* "" or a prompt
    user_input,       \* argument of run
    \* ---- AgentLoop.run: locals
    pc,               \* position in run
    messages,
    turn_number,
    turn,             \* the TurnRecord under construction
    tool_calls,       \* tool_calls of the current LLM response
    tc_i,             \* index of the next tool call to dispatch
    result,           \* the AgentResult
    llm_calls,        \* number of llm_fn invocations
    tool_execs,       \* number of tool_registry.execute invocations
    raised,           \* exception that escaped run, or None
    caught            \* exception the except clause of run caught, or None

loopVars == <<max_turns, tool_registry, hooks, guardrails, llm_fn, system_prompt, user_input,
              pc, messages, turn_number, turn, tool_calls, tc_i, result,
              llm_calls, tool_execs, raised, caught>>

VARIABLES
    idempotency_cache,  \* TRUE: the engine has an IdempotencyCache
    platform_filter,    \* TRUE: the engine has a platform filter
    policy,             \* the HandoffPolicy
    ttl,                \* IdempotencyCache._ttl
    cache,              \* IdempotencyCache._cache: request_id -> [present, result, ts]
    now,                \* time.time()
    llm_runs,           \* per agent: invocations of its llm_fn
    task                \* per caller: its handoff call

handoffVars == <<idempotency_cache, platform_filter, policy, ttl, cache, now,
                 llm_runs, task>>

VARIABLES
    \* ---- MCPManager and the ToolRegistry it injects into
    server_tools,     \* per MCP server: the tool names its tools/list returns
    servers,          \* MCPManager._servers: the connected names, in insertion order
    sdk_tools,        \* per server: _ServerConn.sdk_tools, a list of ToolDef
    tool_map,         \* MCPManager._tool_map: sdk name -> server name
    injected_tools,   \* MCPManager._injected_tools
    registry_tools,   \* ToolRegistry._tools: name -> ToolDef
    last_call         \* the last registry.execute: the tool and the requests it sent;
                      \* closed: how the last disconnect_all ended

mcpVars == <<server_tools, servers, sdk_tools, tool_map, injected_tools,
             registry_tools, last_call>>

VARIABLES
    \* ---- ConversationBuffer over a MemoryStore
    store_suspends,   \* TRUE: a store operation suspends its caller (SQLiteMemoryStore._run)
    buf_list,         \* the store's list under key "buffer"
    buf_meta,         \* the store's value under key "buffer_meta", or None
    added,            \* number of add calls made
    gac,              \* per task: its get_and_clear call [pc, raw_items]
    returned          \* per entry: in how many get_and_clear results it came back

bufferVars == <<store_suspends, buf_list, buf_meta, added, gac, returned>>

VARIABLES
    \* ---- a MemoryStore and the memory layers over it
    store_impl,       \* "InMemoryStore" or "SQLiteMemoryStore"
    store_lists,      \* per namespace and list key: the list
    store_kv,         \* per namespace: the value under key "long_term", decoded
    session_ids,      \* per MemorySession: its agent_id and user_id
    max_messages,     \* ShortTermMemory._max_messages of the sessions
    lt_cache,         \* per LongTermMemory: _cache, or Absent
    mem_ops,          \* number of operations made
    mem_op            \* the last operation: its name, caller, arguments, outcome

memVars == <<store_impl, store_lists, store_kv, session_ids, max_messages,
             lt_cache, mem_ops, mem_op>>

VARIABLES
    \* ---- MCPManager._call_tool_direct: one invocation
    call_max_retries, \* conn.config.max_retries, as add_server left it
    call_pc,          \* position of the invocation
    call_attempt,     \* the loop variable attempt
    call_count,       \* number of conn.client.call_tool calls made
    call_sleeps,      \* the backoffs slept, in tenths of a second
    call_log,         \* outcomes of the conn.client.call_tool calls, in order
    call_raised       \* the exception the invocation raised, or None

callVars == <<call_max_retries, call_pc, call_attempt, call_count, call_sleeps,
              call_log, call_raised>>

VARIABLES
    \* ---- GuardrailManager.check_input in parallel mode: one call
    input_guards,     \* self._input_guards: the guard names, in declaration order
    ctx_text,         \* ctx.text
    finished,         \* the guards whose task has finished, in order of completion
    results,          \* per finished guard: what gather holds for it
    check_pc,         \* position of the call
    check_out         \* what check_input did: [raises, result]

guardVars == <<input_guards, ctx_text, finished, results, check_pc, check_out>>

VARIABLES
    \* ---- ProactiveScheduler with the InMemoryUserStore
    running,          \* ProactiveScheduler._running
    poll_task,        \* ProactiveScheduler._task: the slot of the last task created, 0: None
    poll,             \* per poll task: where _poll_loop stands
    sent_today,       \* InMemoryUserStore._sent_today: (user, trigger) -> day, or NoDay
    sends,            \* per (user, trigger): invocations of send_fn on the day of the clock
    clock_day,        \* the date of the clock (datetime.now(), date.today())
    sched_op          \* the last lifecycle call and whether it created a task

schedVars == <<running, poll_task, poll, sent_today, sends, clock_day, sched_op>>

VARIABLES
    \* ---- AgentOrchestrator.run: one call
    orch,             \* the orchestrator (mode, entry_agent_id, coordinator_llm_fn) and
                      \* the locals of run (pc, decision, results)
    orch_out          \* the HandoffResult run returned

orchVars == <<orch, orch_out>>

VARIABLES
    \* ---- Tracer: one tracer and the spans it created
    tracer_enabled,   \* Tracer._enabled
    span_stack,       \* Tracer._span_stack, the span ids, the innermost last
    spans,            \* per span id: parent_id (0 is the empty string) and status
    exported          \* per span id: the calls of exporter.export on it

traceVars == <<tracer_enabled, span_stack, spans, exported>>

VARIABLES
    \* ---- MCPClient over one StdioTransport, two calling tasks
    rpc_next_id,      \* MCPClient._next_id
    server_in,        \* the request ids written to the child's stdin, unanswered
    stdout_lines,     \* StdioTransport._lines: the ids of the frames read from stdout
    getters,          \* the tasks waiting in _lines.get(), the first first
    rpc               \* per task: pc, the id of its request, the id of the frame it got

stdioVars == <<rpc_next_id, server_in, stdout_lines, getters, rpc>>

VARIABLES
    \* ---- one LongTermMemory, two tasks calling update
    upd_store,        \* the store under it: "InMemoryStore" or "SQLiteMemoryStore"
    upd_init,         \* the value stored before the calls, decoded, or Absent
    upd_kv,           \* the value stored under key "long_term", decoded, or Absent
    upd_cache,        \* LongTermMemory._cache, or Absent
    upd               \* per task: pc, the updates argument, the data on its way to the store

updVars == <<upd_store, upd_init, upd_kv, upd_cache, upd>>

VARIABLES
    \* ---- ProactiveScheduler._run_trigger for one trigger on one day
    send_fn_set,      \* ProactiveScheduler.send_fn is not None
    enabled_users,    \* UserStore: the users for whom the trigger is enabled
    recorded,         \* UserStore: the users recorded as sent today for the trigger
    delivered,        \* the users for whom send_fn returned without an exception
    last_send,        \* the last call of send_fn: the user, and whether the
                      \* trigger was enabled for that user at the call
    trig_run          \* the _run_trigger call in progress: pc and the users to go

trigVars == <<send_fn_set, enabled_users, recorded, delivered, last_send, trig_run>>

VARIABLES
    \* ---- MemorySession.extract_if_needed on one session
    ext_added,        \* the entries added to the conversation buffer so far
    ext_buffer,       \* the buffer list: the numbers of the entries in it
    ext_meta,         \* the buffer's meta key holds a last extraction time
    ext_merged,       \* the entries an extraction turned into a delta that
                      \* long_term.update merged
    ext_op            \* the last extract_if_needed: what it drained, how it ended

extVars == <<ext_added, ext_buffer, ext_meta, ext_merged, ext_op>>

VARIABLES
    \* ---- an InMemoryStore and a SQLiteMemoryStore given the same operations
    eq_mem,           \* InMemoryStore: _kv[ns].get("v"), "l" in _lists[ns], _lists[ns]["l"]
    eq_sql,           \* SQLiteMemoryStore: the memory_kv row of "v", the memory_list rows of "l"
    eq_last           \* the last operation and what each store returned

eqVars == <<eq_mem, eq_sql, eq_last>>

vars == <<loopVars, handoffVars, mcpVars, bufferVars, memVars, callVars, guardVars, schedVars, orchVars, traceVars, stdioVars, updVars, trigVars, extVars, eqVars>>

\* The variables each component leaves alone.
notLoopVars == <<handoffVars, mcpVars, bufferVars, memVars, callVars, guardVars, schedVars, orchVars, traceVars, stdioVars, updVars, trigVars, extVars, eqVars>>
notHandoffVars == <<loopVars, mcpVars, bufferVars, memVars, callVars, guardVars, schedVars, orchVars, traceVars, stdioVars, updVars, trigVars, extVars, eqVars>>
notMCPVars == <<loopVars, handoffVars, bufferVars, memVars, callVars, guardVars, schedVars, orchVars, traceVars, stdioVars, updVars, trigVars, extVars, eqVars>>
notBufferVars == <<loopVars, handoffVars, mcpVars, memVars, callVars, guardVars, schedVars, orchVars, traceVars, stdioVars, updVars, trigVars, extVars, eqVars>>
notMemVars == <<loopVars, handoffVars, mcpVars, bufferVars, callVars, guardVars, schedVars, orchVars, traceVars, stdioVars, updVars, trigVars, extVars, eqVars>>
notCallVars == <<loopVars, handoffVars, mcpVars, bufferVars, memVars, guardVars, schedVars, orchVars, traceVars, stdioVars, updVars, trigVars, extVars, eqVars>>
notGuardVars == <<loopVars, handoffVars, mcpVars, bufferVars, memVars, callVars, schedVars, orchVars, traceVars, stdioVars, updVars, trigVars, extVars, eqVars>>
notSchedVars == <<loopVars, handoffVars, mcpVars, bufferVars, memVars, callVars, guardVars, orchVars, traceVars, stdioVars, updVars, trigVars, extVars, eqVars>>
notOrchVars == <<loopVars, handoffVars, mcpVars, bufferVars, memVars, callVars, guardVars, schedVars, traceVars, stdioVars, updVars, trigVars, extVars, eqVars>>
notTraceVars == <<loopVars, handoffVars, mcpVars, bufferVars, memVars, callVars, guardVars, schedVars, orchVars, stdioVars, updVars, trigVars, extVars, eqVars>>
notStdioVars == <<loopVars, handoffVars, mcpVars, bufferVars, memVars, callVars, guardVars, schedVars, orchVars, traceVars, updVars, trigVars, extVars, eqVars>>
notUpdVars == <<loopVars, handoffVars, mcpVars, bufferVars, memVars, callVars, guardVars, schedVars, orchVars, traceVars, stdioVars, trigVars, extVars, eqVars>>
notTrigVars == <<loopVars, handoffVars, mcpVars, bufferVars, memVars, callVars, guardVars, schedVars, orchVars, traceVars, stdioVars, updVars, extVars, eqVars>>
notExtVars == <<loopVars, handoffVars, mcpVars, bufferVars, memVars, callVars, guardVars, schedVars, orchVars, traceVars, stdioVars, updVars, trigVars, eqVars>>
notEqVars == <<loopVars, handoffVars, mcpVars, bufferVars, memVars, callVars, guardVars, schedVars, orchVars, traceVars, stdioVars, updVars, trigVars, extVars>>

(***************************************************************************)
(* Guardrails (guardrails/engine.py).                                      *)
(***************************************************************************)
\* The guard functions used: what each returns on a text.
\*   block_bad  fails on a text containing "hack"   (tests/test_guardrails.py)
\*   allow      always passes
\*   crash      raises
UserInputs == {"hello", "hack the system"}

GuardFn(g, text) ==
    CASE g = "block_bad" -> IF text = "hack the system" THEN "fail" ELSE "pass"
      [] g = "allow"     -> "pass"
      [] OTHER           -> "raise"

GuardrailResult(passed, name) == [passed |-> passed, guardrail_name |-> name]

\* _execute_one: the guard's result with its name attached, or the raise.
ExecuteOne(g, text) ==
    LET r == GuardFn(g, text) IN
    [raises |-> r = "raise", passed |-> r = "pass", guardrail_name |-> g]

\* _run_parallel: gather(return_exceptions), then the first result in
\* declaration order that is an exception or a failure.
RECURSIVE FirstBad(_, _)
FirstBad(guards, text) ==
    IF guards = <<>> THEN GuardrailResult(TRUE, "")
    ELSE LET r == ExecuteOne(Head(guards), text) IN
         IF r.raises THEN GuardrailResult(FALSE, "unknown")
         ELSE IF ~r.passed THEN GuardrailResult(FALSE, r.guardrail_name)
         ELSE FirstBad(Tail(guards), text)

RunParallel(guards, text) == FirstBad(guards, text)

\* _run_sequential: stop at the first failure or the first raise.
RECURSIVE RunSequential(_, _)
RunSequential(guards, text) ==
    IF guards = <<>> THEN GuardrailResult(TRUE, "")
    ELSE LET r == ExecuteOne(Head(guards), text) IN
         IF r.raises THEN GuardrailResult(FALSE, Head(guards))
         ELSE IF ~r.passed THEN GuardrailResult(FALSE, r.guardrail_name)
         ELSE RunSequential(Tail(guards), text)

RunGuards(mgr, guards, text) ==
    IF guards = <<>> THEN GuardrailResult(TRUE, "")
    ELSE IF mgr.parallel THEN RunParallel(guards, text)
    ELSE RunSequential(guards, text)

\* check_input without the tripwire: a failed result is returned, never raised.
CheckInput_NoTripwire(mgr, text) ==
    [raises |-> None, result |-> RunGuards(mgr, mgr.input_guards, text)]

\* check_input: the result, or the tripwire.
CheckInput(mgr, text) ==
    LET r == RunGuards(mgr, mgr.input_guards, text) IN
    IF ~r.passed THEN [raises |-> "InputGuardrailTriggered", result |-> r]
    ELSE [raises |-> None, result |-> r]

\* The managers a loop is built with.
NoGuardrails == [set |-> FALSE, parallel |-> TRUE, input_guards |-> <<>>]
GuardrailManagers ==
    { [set |-> TRUE, parallel |-> TRUE,  input_guards |-> <<"allow", "block_bad">>],
      [set |-> TRUE, parallel |-> FALSE, input_guards |-> <<"crash">>] }

\* ---- check_input in parallel mode, one task per guard.
GuardNames == {"allow", "block_bad", "crash"}

RECURSIVE SeqsUpTo(_, _)
SeqsUpTo(S, n) ==
    IF n = 0 THEN {<<>>}
    ELSE LET shorter == SeqsUpTo(S, n - 1) IN
         shorter \cup { Append(q, x) : q \in shorter, x \in S }

NoCheck == [raises |-> None, result |-> GuardrailResult(TRUE, "")]

InitGuard ==
    /\ input_guards \in SeqsUpTo(GuardNames, MaxGuards)
    /\ ctx_text \in UserInputs
    /\ finished = <<>>
    /\ results = <<>>
    /\ check_pc = "call"
    /\ check_out = NoCheck

\* check_input, _run_guards: no guard, no task; else one task per guard.
RunGuardsParallel ==
    /\ check_pc = "call"
    /\ IF input_guards = <<>>
       THEN check_pc' = "done" /\ check_out' = NoCheck
       ELSE check_pc' = "gather" /\ UNCHANGED check_out
    /\ UNCHANGED <<input_guards, ctx_text, finished, results>>
    /\ UNCHANGED notGuardVars

\* The task of guard i finishes: gather(return_exceptions=True) keeps its
\* result or its exception at position i, whatever finished before it.
FinishGuard(i) ==
    /\ check_pc = "gather"
    /\ i <= Len(input_guards)
    /\ i \notin DOMAIN results
    /\ results' = [j \in DOMAIN results \cup {i} |->
                      IF j = i THEN ExecuteOne(input_guards[i], ctx_text) ELSE results[j]]
    /\ finished' = Append(finished, i)
    /\ UNCHANGED <<input_guards, ctx_text, check_pc, check_out>>
    /\ UNCHANGED notGuardVars

\* The loop of _run_parallel over the gathered results, in declaration order.
RECURSIVE FirstBadResult(_, _)
FirstBadResult(rs, i) ==
    IF i > Len(input_guards) THEN GuardrailResult(TRUE, "")
    ELSE IF rs[i].raises THEN GuardrailResult(FALSE, "unknown")
    ELSE IF ~rs[i].passed THEN GuardrailResult(FALSE, rs[i].guardrail_name)
    ELSE FirstBadResult(rs, i + 1)

\* gather returns once every task has finished; check_input raises the
\* tripwire on a failed result.
Gathered ==
    /\ check_pc = "gather"
    /\ DOMAIN results = 1..Len(input_guards)
    /\ LET r == FirstBadResult(results, 1) IN
       check_out' = IF ~r.passed
                    THEN [raises |-> "InputGuardrailTriggered", result |-> r]
                    ELSE [raises |-> None, result |-> r]
    /\ check_pc' = "done"
    /\ UNCHANGED <<input_guards, ctx_text, finished, results>>
    /\ UNCHANGED notGuardVars

NextGuard ==
    \/ RunGuardsParallel
    \/ \E i \in 1..MaxGuards : FinishGuard(i)
    \/ Gathered

(***************************************************************************)
(* AgentLoop (agent/loop.py).                                              *)
(***************************************************************************)
\* Tools: greet is registered and returns, boom is registered and raises;
\* any other name is not registered.
Registries == {{"greet", "boom"}}

\* Forms of the arguments field of a tool call:
\*   json    a string holding a JSON object
\*   badjson a string that is no JSON            (JSONDecodeError, caught)
\*   pairs   a list that dict() rejects           (ValueError, not caught)
\* The tool calls an LLM response is made of.
LLMToolCalls ==
    { [name |-> "greet", arguments |-> "json"],
      [name |-> "boom",  arguments |-> "badjson"],
      [name |-> "greet", arguments |-> "pairs"] }

\* LLM callbacks that ask for one tool only: greet returns, boom raises,
\* ghost is not registered.
SingleToolLLMs ==
    { {[name |-> n, arguments |-> "json"]} : n \in {"greet", "boom", "ghost"} }

CallId(i) == "call_" \o ToString(i)
Text(n) == "text_" \o ToString(n)

\* tool_calls lists of an LLM response: the i-th call carries id call_i.
ToolCallLists ==
    UNION { { [i \in 1..n |-> [id |-> CallId(i), name |-> f[i].name,
                               arguments |-> f[i].arguments]]
              : f \in [1..n -> llm_fn] } : n \in 0..MaxCalls }

\* json.loads / dict() of the arguments (run, lines 231-234).
ParseArgs(form) ==
    CASE form = "json"    -> [raises |-> None, args |-> "args"]
      [] form = "badjson" -> [raises |-> None, args |-> "{}"]
      [] OTHER            -> [raises |-> "ValueError", args |-> "{}"]

\* ToolRegistry.execute: KeyError for an unknown name, else the handler.
Execute(registry, name) ==
    IF name \notin registry THEN [raises |-> "KeyError", value |-> ""]
    ELSE IF name = "boom" THEN [raises |-> "RuntimeError", value |-> ""]
    ELSE [raises |-> None, value |-> "Hello"]

\* _serialize_tool_calls: the ids kept on the assistant message.
SerializeToolCalls(tcs) == [i \in 1..Len(tcs) |-> tcs[i].id]

EmptyResult ==
    [final_output |-> "", turns |-> <<>>, tool_calls_count |-> 0,
     total_turns |-> 0, stopped_reason |-> "completed", messages |-> <<>>]

NewTurn(n) == [turn_number |-> n, llm_output |-> None, tool_calls |-> <<>>,
               is_final |-> FALSE]

Msg(role, content) ==
    [role |-> role, content |-> content, tool_calls |-> <<>>, tool_call_id |-> ""]

Or(content, default) == IF content = None \/ content = "" THEN default ELSE content

LoopStart(llm_fns) ==
    /\ max_turns \in 0..MaxTurnsBound
    /\ tool_registry \in Registries
    /\ hooks \in BOOLEAN
    /\ guardrails \in {NoGuardrails} \cup GuardrailManagers
    /\ llm_fn \in llm_fns
    /\ system_prompt \in {"sys"}
    /\ user_input = ""
    /\ pc = "idle"
    /\ messages = <<>>
    /\ turn_number = 0
    /\ turn = NewTurn(0)
    /\ tool_calls = <<>>
    /\ tc_i = 0
    /\ result = EmptyResult
    /\ llm_calls = 0
    /\ tool_execs = 0
    /\ raised = None
    /\ caught = None

InitLoop == LoopStart({LLMToolCalls})

\* run, lines 169-183: the initial messages and the empty result.
Run(u) ==
    /\ UNCHANGED notLoopVars
    /\ pc = "idle"
    /\ user_input' = u
    /\ messages' = (IF system_prompt # "" THEN <<Msg("system", system_prompt)>> ELSE <<>>)
                   \o <<Msg("user", u)>>
    /\ result' = EmptyResult
    /\ turn_number' = 0
    /\ pc' = "loop"
    /\ UNCHANGED <<max_turns, tool_registry, hooks, guardrails, llm_fn, system_prompt,
                   turn, tool_calls, tc_i, llm_calls, tool_execs, raised, caught>>

\* A while loop that tests turn_number <= max_turns.
BeginTurn_OneMore ==
    /\ UNCHANGED notLoopVars
    /\ pc = "loop"
    /\ turn_number <= max_turns
    /\ turn_number' = turn_number + 1
    /\ turn' = NewTurn(turn_number + 1)
    /\ pc' = IF turn_number + 1 = 1 /\ guardrails.set THEN "guard" ELSE "llm"
    /\ UNCHANGED <<max_turns, tool_registry, hooks, guardrails, llm_fn, system_prompt,
                   user_input, messages, tool_calls, tc_i, result, llm_calls,
                   tool_execs, raised, caught>>

\* The while condition holds: next turn.
BeginTurn ==
    /\ UNCHANGED notLoopVars
    /\ pc = "loop"
    /\ turn_number < max_turns
    /\ turn_number' = turn_number + 1
    /\ turn' = NewTurn(turn_number + 1)
    /\ pc' = IF turn_number + 1 = 1 /\ guardrails.set THEN "guard" ELSE "llm"
    /\ UNCHANGED <<max_turns, tool_registry, hooks, guardrails, llm_fn, system_prompt,
                   user_input, messages, tool_calls, tc_i, result, llm_calls,
                   tool_execs, raised, caught>>

\* The while's else branch (lines 282-291): max_turns exceeded.
MaxTurnsExit ==
    /\ UNCHANGED notLoopVars
    /\ pc = "loop"
    /\ ~(turn_number < max_turns)
    /\ result' = [result EXCEPT
                    !.stopped_reason = "max_turns",
                    !.final_output =
                        IF result.turns # <<>> /\ Or(Last(result.turns).llm_output, "") # ""
                        THEN Last(result.turns).llm_output ELSE @,
                    !.total_turns = turn_number,
                    !.messages = messages]
    /\ pc' = "done"
    /\ UNCHANGED <<max_turns, tool_registry, hooks, guardrails, llm_fn, system_prompt,
                   user_input, messages, turn_number, turn, tool_calls, tc_i,
                   llm_calls, tool_execs, raised, caught>>

\* Input guardrails on the first turn, before the LLM call.  The tripwire is
\* not turned into a result: it leaves run.
InputGuardrails ==
    /\ UNCHANGED notLoopVars
    /\ pc = "guard"
    /\ LET c == CheckInput(guardrails, user_input) IN
       IF c.raises # None
       THEN /\ raised' = c.raises
            /\ caught' = caught
            /\ pc' = "raised"
       ELSE /\ raised' = raised /\ caught' = caught
            /\ pc' = "llm"
    /\ UNCHANGED <<max_turns, tool_registry, hooks, guardrails, llm_fn, system_prompt,
                   user_input, messages, turn_number, turn, tool_calls, tc_i,
                   result, llm_calls, tool_execs>>

\* An except clause without its break: the while loop goes on.
Fail_NoBreak(e, msgs, res) ==
    /\ pc' = "loop"
    /\ raised' = raised
    /\ caught' = e
    /\ result' = [res EXCEPT !.stopped_reason = "error",
                             !.final_output = "Error: " \o e]

\* The except clause of run (lines 274-280) followed by lines 289-291:
\* on_error may itself raise, which leaves run.
Fail(e, msgs, res) ==
    \/ /\ pc' = "done"
       /\ raised' = raised
       /\ caught' = e
       /\ result' = [res EXCEPT !.stopped_reason = "error",
                                !.final_output = "Error: " \o e,
                                !.total_turns = turn_number,
                                !.messages = msgs]
    \/ /\ hooks
       /\ pc' = "raised"
       /\ raised' = "HookError"
       /\ caught' = e
       /\ result' = res

\* One LLM turn up to the branch on tool_calls (lines 189-222).
LLMCall ==
    /\ UNCHANGED notLoopVars
    /\ pc = "llm"
    /\ \/ \* on_llm_start raises
          /\ hooks
          /\ Fail("HookError", messages, result)
          /\ UNCHANGED <<messages, turn, tool_calls, tc_i, llm_calls>>
       \/ \* llm_fn raises
          /\ llm_calls' = llm_calls + 1
          /\ Fail("LLMError", messages, result)
          /\ UNCHANGED <<messages, turn, tool_calls, tc_i>>
       \/ \* on_llm_end raises
          /\ hooks
          /\ llm_calls' = llm_calls + 1
          /\ Fail("HookError", messages, result)
          /\ UNCHANGED <<messages, turn, tool_calls, tc_i>>
       \/ \* no tool calls: the final output
          \E content \in {None, Text(turn_number)} :
            LET t == [turn EXCEPT !.llm_output = content, !.is_final = TRUE]
                r == [result EXCEPT !.final_output = Or(content, ""),
                                    !.stopped_reason = "completed",
                                    !.turns = Append(@, t)]
            IN /\ llm_calls' = llm_calls + 1
               /\ turn' = t
               /\ \/ /\ result' = [r EXCEPT !.total_turns = turn_number,
                                            !.messages = messages]
                     /\ pc' = "done"
                     /\ raised' = raised /\ caught' = caught
                  \/ \* on_turn_end raises
                     /\ hooks
                     /\ Fail("HookError", messages, r)
               /\ UNCHANGED <<messages, tool_calls, tc_i>>
       \/ \* tool calls: the assistant message
          \E content \in {None, Text(turn_number)}, tcs \in ToolCallLists :
            /\ tcs # <<>>
            /\ llm_calls' = llm_calls + 1
            /\ turn' = [turn EXCEPT !.llm_output = content]
            /\ messages' = Append(messages,
                              [Msg("assistant", Or(content, ""))
                                 EXCEPT !.tool_calls = SerializeToolCalls(tcs)])
            /\ tool_calls' = tcs
            /\ tc_i' = 1
            /\ pc' = "tools"
            /\ UNCHANGED <<result, raised, caught>>
    /\ UNCHANGED <<max_turns, tool_registry, hooks, guardrails, llm_fn, system_prompt,
                   user_input, turn_number, tool_execs>>

\* A for loop body that does not catch what tool_registry.execute raises.
DispatchTool_NoCatch ==
    /\ UNCHANGED notLoopVars
    /\ pc = "tools"
    /\ tc_i <= Len(tool_calls)
    /\ LET tc   == tool_calls[tc_i]
           p    == ParseArgs(tc.arguments)
           ex   == Execute(tool_registry, tc.name)
           rec  == [tool_name |-> tc.name, call_id |-> tc.id,
                    result |-> ex.value,
                    error |-> ex.raises]
       IN
       \/ /\ p.raises # None
          /\ Fail(p.raises, messages, result)
          /\ UNCHANGED <<messages, turn, tc_i, tool_execs>>
       \/ /\ p.raises = None
          /\ hooks
          /\ Fail("HookError", messages, result)
          /\ UNCHANGED <<messages, turn, tc_i, tool_execs>>
       \/ /\ p.raises = None
          /\ hooks
          /\ tool_execs' = tool_execs + 1
          /\ Fail("HookError", messages, result)
          /\ UNCHANGED <<messages, turn, tc_i>>
       \/ /\ p.raises = None
          /\ ex.raises # None
          /\ tool_execs' = tool_execs + 1
          /\ Fail(ex.raises, messages, result)
          /\ UNCHANGED <<messages, turn, tc_i>>
       \/ /\ p.raises = None
          /\ ex.raises = None
          /\ tool_execs' = tool_execs + 1
          /\ turn' = [turn EXCEPT !.tool_calls = Append(@, rec)]
          /\ result' = [result EXCEPT !.tool_calls_count = @ + 1]
          /\ messages' = Append(messages,
                            [Msg("tool", ex.value) EXCEPT !.tool_call_id = tc.id])
          /\ tc_i' = tc_i + 1
          /\ UNCHANGED <<pc, raised, caught>>
    /\ UNCHANGED <<max_turns, tool_registry, hooks, guardrails, llm_fn, system_prompt,
                   user_input, turn_number, tool_calls, llm_calls>>

\* One iteration of the for loop over tool_calls (lines 224-268).
DispatchTool ==
    /\ UNCHANGED notLoopVars
    /\ pc = "tools"
    /\ tc_i <= Len(tool_calls)
    /\ LET tc   == tool_calls[tc_i]
           p    == ParseArgs(tc.arguments)
           ex   == Execute(tool_registry, tc.name)
           rec  == [tool_name |-> tc.name, call_id |-> tc.id,
                    result |-> ex.value,
                    error |-> ex.raises]
           str  == IF ex.raises = None THEN ex.value ELSE "Error: " \o ex.raises
       IN
       \/ \* the arguments do not convert
          /\ p.raises # None
          /\ Fail(p.raises, messages, result)
          /\ UNCHANGED <<messages, turn, tc_i, tool_execs>>
       \/ \* on_tool_start raises
          /\ p.raises = None
          /\ hooks
          /\ Fail("HookError", messages, result)
          /\ UNCHANGED <<messages, turn, tc_i, tool_execs>>
       \/ \* on_tool_end raises
          /\ p.raises = None
          /\ hooks
          /\ tool_execs' = tool_execs + 1
          /\ Fail("HookError", messages, result)
          /\ UNCHANGED <<messages, turn, tc_i>>
       \/ \* the call is recorded and its tool message appended
          /\ p.raises = None
          /\ tool_execs' = tool_execs + 1
          /\ turn' = [turn EXCEPT !.tool_calls = Append(@, rec)]
          /\ result' = [result EXCEPT !.tool_calls_count = @ + 1]
          /\ messages' = Append(messages,
                            [Msg("tool", str) EXCEPT !.tool_call_id = tc.id])
          /\ tc_i' = tc_i + 1
          /\ UNCHANGED <<pc, raised, caught>>
    /\ UNCHANGED <<max_turns, tool_registry, hooks, guardrails, llm_fn, system_prompt,
                   user_input, turn_number, tool_calls, llm_calls>>

\* After the for loop (lines 270-272): the turn is recorded.
EndTurn ==
    /\ UNCHANGED notLoopVars
    /\ pc = "tools"
    /\ tc_i > Len(tool_calls)
    /\ LET r == [result EXCEPT !.turns = Append(@, turn)] IN
       \/ /\ result' = r
          /\ pc' = "loop"
          /\ raised' = raised /\ caught' = caught
       \/ \* on_turn_end raises
          /\ hooks
          /\ Fail("HookError", messages, r)
    /\ UNCHANGED <<max_turns, tool_registry, hooks, guardrails, llm_fn, system_prompt,
                   user_input, messages, turn_number, turn, tool_calls, tc_i,
                   llm_calls, tool_execs>>

NextLoop ==
    \/ \E u \in UserInputs : Run(u)
    \/ BeginTurn
    \/ MaxTurnsExit
    \/ InputGuardrails
    \/ LLMCall
    \/ DispatchTool
    \/ EndTurn



(***************************************************************************)
(* Handoff: AgentCardPublic, HandoffPolicy, IdempotencyCache, HandoffEngine *)
(* (agent/card.py, agent/policy.py, agent/engine.py).                      *)
(***************************************************************************)
Tasks == {1, 2}

\* HandoffPolicy.max_hop_count
DefaultMaxHopCount == 3

\* The registered agents, by agent_id.
Card(id, owner, vis, safety, pol) ==
    [agent_id |-> id, owner_id |-> owner, org_id |-> "", visibility |-> vis,
     safety_level |-> safety, handoff_policy |-> pol,
     allowed_caller_agents |-> {}, allowed_caller_owners |-> {}]

AgentIds == {"a", "priv", "hi", "anon"}

Agents ==
    [id \in AgentIds |->
        CASE id = "a"    -> Card("a", "dev1", "public", "medium", "auto")
          [] id = "priv" -> Card("priv", "dev2", "private", "medium", "auto")
          [] id = "anon" -> Card("anon", "", "private", "medium", "auto")
          [] OTHER       -> Card("hi", "dev1", "public", "high", "auto")]

\* AgentRegistry._is_visible
IsVisible(card, caller_owner_id, caller_org_id) ==
    IF card.visibility = "public" THEN TRUE
    ELSE IF card.visibility = "org"
        THEN card.org_id # "" /\ caller_org_id # "" /\ card.org_id = caller_org_id
    ELSE caller_owner_id # "" /\ card.owner_id = caller_owner_id

\* AgentRegistry.list_all: the ids of every registered agent.
ListAll == AgentIds

\* AgentRegistry.get
RegistryGet(id) == IF id \in AgentIds THEN {Agents[id]} ELSE {}

\* The requests the callers make.
Requests ==
    [from_agent : {"caller"},
     to_agent : {"a", "priv", "hi", "zz"},
     requested_mode : {"tool_based"},
     request_id : {"r1", "r2"},
     hop_count : {2, 3},
     visited_agents : {<<>>, <<"a", "b">>},
     caller_owner_id : {"dev1"},
     caller_org_id : {""}]

\* HandoffPolicy.check_access: the error code, or None.
CheckAccess(pol, request, target) ==
    IF target.handoff_policy = "deny" THEN "NOT_ALLOWED"
    ELSE IF target.safety_level = "high" /\ request.requested_mode = "tool_based"
        THEN "SAFETY_BLOCK"
    ELSE IF target.handoff_policy = "coordinator_only"
            /\ request.requested_mode = "tool_based"
        THEN "NOT_ALLOWED"
    ELSE IF target.visibility = "private" /\ request.caller_owner_id # target.owner_id
        THEN "NOT_ALLOWED"
    ELSE IF target.visibility = "org"
            /\ (target.org_id = "" \/ request.caller_org_id # target.org_id)
        THEN "NOT_ALLOWED"
    ELSE IF target.allowed_caller_agents # {}
            /\ request.from_agent \notin target.allowed_caller_agents
        THEN "NOT_ALLOWED"
    ELSE IF target.allowed_caller_owners # {}
            /\ request.caller_owner_id \notin target.allowed_caller_owners
        THEN "NOT_ALLOWED"
    ELSE IF ~pol.allow_cross_owner
            /\ request.caller_owner_id # "" /\ target.owner_id # ""
            /\ request.caller_owner_id # target.owner_id
        THEN "NOT_ALLOWED"
    ELSE None

\* check_loop without the visited_agents test.
CheckLoop_HopsOnly(pol, request) ==
    IF request.hop_count + 1 > pol.max_hop_count THEN "LOOP_DETECTED" ELSE None

\* HandoffPolicy.check_loop: the error code, or None.
CheckLoop(pol, request) ==
    IF request.hop_count + 1 > pol.max_hop_count THEN "LOOP_DETECTED"
    ELSE IF InSeq(request.to_agent, request.visited_agents) THEN "LOOP_DETECTED"
    ELSE None

\* HandoffResult
NoResult ==
    [output |-> "", agent_id |-> "", status |-> "none", error |-> None,
     retryable |-> FALSE, request_id |-> "", cache_hit |-> FALSE]

\* HandoffEngine._error_result
ErrorResult(request, code) ==
    [output |-> "", agent_id |-> request.to_agent,
     status |-> CASE code = "LOOP_DETECTED" -> "loop_detected"
                  [] code = "TIMEOUT"       -> "timeout"
                  [] OTHER                  -> "error",
     error |-> code,
     retryable |-> code \in {"TIMEOUT", "MODEL_ERROR"},
     request_id |-> request.request_id, cache_hit |-> FALSE]

\* _execute, step 7: the result of a run that returned.
SuccessResult(request, output) ==
    [output |-> output, agent_id |-> request.to_agent, status |-> "success",
     error |-> None, retryable |-> FALSE, request_id |-> request.request_id,
     cache_hit |-> FALSE]

\* Steps 2-4 without the access check of step 3.
PreCheck_SkipAccess(pol, request) ==
    IF RegistryGet(request.to_agent) = {} THEN "NOT_FOUND" ELSE CheckLoop(pol, request)

\* _execute, steps 2-4: the error code that ends the pipeline, or None.
PreCheck(pol, request) ==
    LET found == RegistryGet(request.to_agent) IN
    IF found = {} THEN "NOT_FOUND"
    ELSE LET target == CHOOSE c \in found : TRUE
             access == CheckAccess(pol, request, target) IN
         IF access # None THEN access ELSE CheckLoop(pol, request)

\* What AgentLoop.run does with the target's LLM callback: a returned text
\* is the final output; an exception of llm_fn is caught by the loop, which
\* returns with final_output "Error: ..." (loop.py, lines 274-280).
LoopOutput(n, llm) ==
    IF llm = "returns" THEN "out_" \o ToString(n) ELSE "Error: LLMError"

RequestIds == {"r1", "r2"}

IdleTask ==
    [pc |-> "idle", request |-> CHOOSE r \in Requests : TRUE, cached |-> FALSE,
     result |-> NoResult, ran_platform_filter |-> FALSE, ran_input_filter |-> FALSE,
     ran_llm |-> FALSE, failure |-> None, started_at |-> 0,
     returned_at |-> 0, overlapped |-> FALSE, after |-> FALSE]

NoEntry == [present |-> FALSE, result |-> NoResult, ts |-> 0]

InitHandoff ==
    /\ idempotency_cache \in BOOLEAN
    /\ platform_filter \in BOOLEAN
    /\ policy = [max_hop_count |-> DefaultMaxHopCount, allow_cross_owner |-> FALSE]
    /\ ttl = CacheTTL
    /\ cache = [r \in RequestIds |-> NoEntry]
    /\ now = 0
    /\ llm_runs = [a \in AgentIds |-> 0]
    /\ task = [t \in Tasks |-> IdleTask]

\* _cleanup expiring an entry already at age ttl.
Cleanup_Eager(c, time) ==
    [r \in RequestIds |-> IF c[r].present /\ time - c[r].ts >= ttl THEN NoEntry ELSE c[r]]

\* IdempotencyCache._cleanup
Cleanup(c, time) ==
    [r \in RequestIds |-> IF c[r].present /\ time - c[r].ts > ttl THEN NoEntry ELSE c[r]]

\* The tail of _execute and of get_or_execute: the result is stored under
\* the request_id when the call came through the cache, and returned.
Return(t, tk, res) ==
    /\ task' = [task EXCEPT ![t] = [tk EXCEPT !.pc = "done", !.result = res,
                                              !.returned_at = now]]
    /\ cache' = IF tk.cached
                THEN [cache EXCEPT ![tk.request.request_id] =
                        [present |-> TRUE, result |-> res, ts |-> now]]
                ELSE cache

InFlight(t) == task[t].pc \notin {"idle", "done"}

\* handoff(request) up to its first suspension: the cache lookup of
\* get_or_execute, then steps 2-4 of _execute.
Handoff(t, request) ==
    /\ UNCHANGED notHandoffVars
    /\ task[t].pc = "idle"
    /\ LET other  == CHOOSE o \in Tasks : o # t
           viaCache == idempotency_cache /\ request.request_id # ""
           cleaned == IF viaCache THEN Cleanup(cache, now) ELSE cache
           tk == [task[t] EXCEPT !.request = request, !.cached = viaCache,
                                 !.started_at = now, !.returned_at = now,
                                 !.overlapped = InFlight(other),
                                 !.after = task[other].pc = "done"]
           err == PreCheck(policy, request)
       IN
       IF viaCache /\ cleaned[request.request_id].present
       THEN /\ task' = [task EXCEPT ![t] =
                          [tk EXCEPT !.pc = "done",
                                     !.result = [cleaned[request.request_id].result
                                                   EXCEPT !.cache_hit = TRUE]]]
            /\ cache' = cleaned
       ELSE IF err # None
       THEN /\ task' = [task EXCEPT ![t] =
                          [tk EXCEPT !.pc = "done", !.result = ErrorResult(request, err)]]
            /\ cache' = IF viaCache
                        THEN [cleaned EXCEPT ![request.request_id] =
                                [present |-> TRUE, result |-> ErrorResult(request, err),
                                 ts |-> now]]
                        ELSE cleaned
       ELSE /\ task' = [task EXCEPT ![t] =
                          [tk EXCEPT !.pc = IF platform_filter THEN "platform_filter"
                                            ELSE "input_filter"]]
            /\ cache' = cleaned
    /\ UNCHANGED <<idempotency_cache, platform_filter, policy, ttl, now, llm_runs>>

\* _execute, step 5: await platform_filter(ctx).
PlatformFilter(t) ==
    /\ UNCHANGED notHandoffVars
    /\ task[t].pc = "platform_filter"
    /\ LET tk == [task[t] EXCEPT !.ran_platform_filter = TRUE] IN
       \/ /\ task' = [task EXCEPT ![t] = [tk EXCEPT !.pc = "input_filter"]]
          /\ cache' = cache
       \/ \* the filter raises
          Return(t, [tk EXCEPT !.failure = "filter_raised"],
                 ErrorResult(tk.request, "TOOL_ERROR"))
    /\ UNCHANGED <<idempotency_cache, platform_filter, policy, ttl, now, llm_runs>>

\* _execute, step 5: await target.input_filter(ctx).
InputFilter(t) ==
    /\ UNCHANGED notHandoffVars
    /\ task[t].pc = "input_filter"
    /\ LET tk == [task[t] EXCEPT !.ran_input_filter = TRUE] IN
       \/ /\ task' = [task EXCEPT ![t] = [tk EXCEPT !.pc = "run"]]
          /\ cache' = cache
       \/ \* the filter raises
          Return(t, [tk EXCEPT !.failure = "filter_raised"],
                 ErrorResult(tk.request, "TOOL_ERROR"))
    /\ UNCHANGED <<idempotency_cache, platform_filter, policy, ttl, now, llm_runs>>

\* _execute, step 6, and _run_agent: the target's AgentLoop starts under the
\* deadline.  Its input guardrails may trip before the LLM is called; the
\* tripwire leaves the loop and is caught by _execute.
StartAgent(t) ==
    /\ UNCHANGED notHandoffVars
    /\ task[t].pc = "run"
    /\ \/ /\ Return(t, [task[t] EXCEPT !.failure = "loop_raised"],
                    ErrorResult(task[t].request, "TOOL_ERROR"))
          /\ llm_runs' = llm_runs
       \/ /\ task' = [task EXCEPT ![t] = [@ EXCEPT !.pc = "running", !.ran_llm = TRUE]]
          /\ llm_runs' = [llm_runs EXCEPT ![task[t].request.to_agent] = @ + 1]
          /\ cache' = cache
    /\ UNCHANGED <<idempotency_cache, platform_filter, policy, ttl, now>>

\* The awaited run ends: the loop returns (steps 7-8), or the deadline
\* expires first (TIMEOUT).
FinishAgent(t) ==
    /\ UNCHANGED notHandoffVars
    /\ task[t].pc = "running"
    /\ LET tk == task[t]
           n  == llm_runs[tk.request.to_agent] IN
       \/ Return(t, tk, SuccessResult(tk.request, LoopOutput(n, "returns")))
       \/ Return(t, [tk EXCEPT !.failure = "llm_raised"],
                 SuccessResult(tk.request, LoopOutput(n, "raises")))
       \/ Return(t, [tk EXCEPT !.failure = "deadline"],
                 ErrorResult(tk.request, "TIMEOUT"))
    /\ UNCHANGED <<idempotency_cache, platform_filter, policy, ttl, now, llm_runs>>

\* Time passes.
Tick ==
    /\ UNCHANGED notHandoffVars
    /\ idempotency_cache
    /\ now < MaxTime
    /\ now' = now + 1
    /\ UNCHANGED <<idempotency_cache, platform_filter, policy, ttl, cache,
                   llm_runs, task>>

NextHandoff ==
    \/ \E t \in Tasks, r \in Requests : Handoff(t, r)
    \/ \E t \in Tasks : PlatformFilter(t)
    \/ \E t \in Tasks : InputFilter(t)
    \/ \E t \in Tasks : StartAgent(t)
    \/ \E t \in Tasks : FinishAgent(t)
    \/ Tick

(***************************************************************************)
(* MCP: MCPManager (mcp/manager.py), convert_mcp_tools (mcp/converter.py)  *)
(* and the ToolRegistry the tools are injected into (tools/registry.py).   *)
(***************************************************************************)
ServerNames == {"s1", "s2"}

\* Names refresh_tools can be given: the servers and one unknown name.
RefreshNames == ServerNames \cup {"nope"}

\* What a server's tools/list can return: s1 gains and loses a tool, both
\* servers have a tool of the same name.
ToolLists(sv) ==
    IF sv = "s1" THEN {<<"read_file">>, <<"read_file", "list">>} ELSE {<<"read_file">>}

McpTools == {"read_file", "list"}

\* converter.mcp_tool_name
McpToolName(server, tool) == "mcp." \o server \o "." \o tool

SdkNames ==
    {McpToolName(sv, tl) : sv \in ServerNames, tl \in McpTools}

\* A ToolDef made by convert_mcp_tools.  Its handler calls
\* call_fn(_orig, kwargs); route and conn_ok are what call_fn's free
\* variables hold when the handler runs: the server name handed to
\* _call_tool_direct, and whether the connection read for max_retries is
\* an object.
ToolDef(name, orig, route, conn_ok) ==
    [name |-> name, mcp |-> TRUE, orig |-> orig, route |-> route, conn_ok |-> conn_ok]

\* A tool the application registered itself.
NativeTool == [name |-> "native", mcp |-> FALSE, orig |-> "", route |-> "", conn_ok |-> TRUE]

\* convert_mcp_tools
ConvertMcpTools(server_name, mcp_tools, route, conn_ok) ==
    [i \in 1..Len(mcp_tools) |->
        ToolDef(McpToolName(server_name, mcp_tools[i]), mcp_tools[i], route, conn_ok)]

Names(tools) == {tools[i].name : i \in 1..Len(tools)}

\* dict item assignment on an insertion-ordered dict's keys
PutKey(keys, k) == IF InSeq(k, keys) THEN keys ELSE Append(keys, k)

DelKey(keys, k) == SelectSeq(keys, LAMBDA x : x # k)

RECURSIVE Concat(_, _)
\* the sdk_tools of the servers in order, in one list
Concat(order, tools) ==
    IF order = <<>> THEN <<>> ELSE tools[Head(order)] \o Concat(Tail(order), tools)

\* last_call when the step taken was not a tool execution.
NoCall == [name |-> None, raises |-> None, sent |-> {}, connected |-> FALSE,
           current |-> FALSE, closed |-> None]

InitMCP ==
    /\ server_tools \in {f \in [ServerNames -> UNION {ToolLists(sv) : sv \in ServerNames}] :
                            \A sv \in ServerNames : f[sv] \in ToolLists(sv)}
    /\ servers = <<>>
    /\ sdk_tools = [sv \in ServerNames |-> <<>>]
    /\ tool_map = [n \in SdkNames |-> None]
    /\ injected_tools = <<>>
    /\ registry_tools = {NativeTool}
    /\ last_call = NoCall

\* add_server_with_transport: list the server's tools, convert them with a
\* call_fn bound to config.name, record the connection and the routes.
AddServer(sv) ==
    /\ UNCHANGED notMCPVars
    /\ LET tools == ConvertMcpTools(sv, server_tools[sv], sv, TRUE) IN
       /\ servers' = PutKey(servers, sv)
       /\ sdk_tools' = [sdk_tools EXCEPT ![sv] = tools]
       /\ tool_map' = [n \in SdkNames |-> IF n \in Names(tools) THEN sv ELSE tool_map[n]]
    /\ UNCHANGED <<server_tools, injected_tools, registry_tools>>
    /\ last_call' = NoCall

\* remove_server; an unknown name raises KeyError and changes nothing.
RemoveServer(sv) ==
    /\ UNCHANGED notMCPVars
    /\ InSeq(sv, servers)
    /\ tool_map' = [n \in SdkNames |-> IF n \in Names(sdk_tools[sv]) THEN None
                                       ELSE tool_map[n]]
    /\ servers' = DelKey(servers, sv)
    /\ sdk_tools' = [sdk_tools EXCEPT ![sv] = <<>>]
    /\ UNCHANGED <<server_tools, injected_tools, registry_tools>>
    /\ last_call' = NoCall

\* ToolRegistry.remove for each name of a list
RegistryRemove(reg, names) == {td \in reg : ~InSeq(td.name, names)}

\* ToolRegistry.register for each ToolDef of a list: a later one replaces an
\* earlier one of the same name.
RegistryRegister(reg, tools) ==
    {td \in reg : td.name \notin Names(tools)}
        \cup {tools[i] : i \in {j \in 1..Len(tools) :
                                  \A k \in (j+1)..Len(tools) : tools[k].name # tools[j].name}}

\* An inject_tools that registers first and removes the old names last.
Injected_RemoveLast(reg, injected, all) ==
    [registry |-> RegistryRemove(RegistryRegister(reg, all), injected),
     injected |-> [i \in 1..Len(all) |-> all[i].name]]

\* The body of inject_tools on a registry: the names injected before are
\* removed, then every sdk tool of every server is registered.
Injected(reg, injected, all) ==
    [registry |-> RegistryRegister(RegistryRemove(reg, injected), all),
     injected |-> [i \in 1..Len(all) |-> all[i].name]]

\* inject_tools
InjectTools ==
    /\ UNCHANGED notMCPVars
    /\ LET r == Injected(registry_tools, injected_tools, Concat(servers, sdk_tools)) IN
       /\ registry_tools' = r.registry
       /\ injected_tools' = r.injected
    /\ UNCHANGED <<server_tools, servers, sdk_tools, tool_map>>
    /\ last_call' = NoCall

\* remove_tools
RemoveTools ==
    /\ UNCHANGED notMCPVars
    /\ registry_tools' = RegistryRemove(registry_tools, injected_tools)
    /\ injected_tools' = <<>>
    /\ UNCHANGED <<server_tools, servers, sdk_tools, tool_map>>
    /\ last_call' = NoCall

RECURSIVE RefreshEach(_, _, _, _, _)
\* The loop of refresh_tools over its targets.  Every call_fn it defines
\* reads name and conn from the one frame of this refresh_tools call, so the
\* handlers made in any iteration see the values the loop left there:
\* route, and whether conn is an object.
RefreshEach(targets, route, conn_ok, tools, map) ==
    IF targets = <<>> THEN [sdk_tools |-> tools, tool_map |-> map]
    ELSE LET name == Head(targets) IN
         IF ~InSeq(name, servers)
         THEN RefreshEach(Tail(targets), route, conn_ok, tools, map)
         ELSE LET new == ConvertMcpTools(name, server_tools[name], route, conn_ok)
                  popped == [n \in SdkNames |->
                               IF n \in Names(tools[name]) THEN None ELSE map[n]]
              IN RefreshEach(Tail(targets), route, conn_ok,
                             [tools EXCEPT ![name] = new],
                             [n \in SdkNames |->
                                IF n \in Names(new) THEN name ELSE popped[n]])

\* refresh_tools(*given): all servers when no name is given.
RefreshTools(given) ==
    /\ UNCHANGED notMCPVars
    /\ LET targets == IF given = <<>> THEN servers ELSE given IN
       IF targets = <<>>
       THEN UNCHANGED <<sdk_tools, tool_map>>
       ELSE LET r == RefreshEach(targets, Last(targets),
                                 InSeq(Last(targets), servers), sdk_tools, tool_map)
            IN /\ sdk_tools' = r.sdk_tools
               /\ tool_map' = r.tool_map
    /\ UNCHANGED <<server_tools, servers, injected_tools, registry_tools>>
    /\ last_call' = NoCall

\* disconnect_all with no try around close: the first error leaves it.
DisconnectAll_NoCatch(errors) ==
    /\ UNCHANGED notMCPVars
    /\ errors \subseteq {servers[i] : i \in 1..Len(servers)}
    /\ IF errors # {}
       THEN /\ UNCHANGED <<servers, sdk_tools, tool_map, injected_tools>>
            /\ last_call' = [NoCall EXCEPT !.closed = "Exception"]
       ELSE /\ servers' = <<>>
            /\ sdk_tools' = [sv \in ServerNames |-> <<>>]
            /\ tool_map' = [n \in SdkNames |-> None]
            /\ injected_tools' = <<>>
            /\ last_call' = [NoCall EXCEPT !.closed = "returned"]
    /\ UNCHANGED <<server_tools, registry_tools>>

\* disconnect_all; errors: the servers whose client.close() raises.  The
\* errors are collected, the state is cleared, then RuntimeError is raised.
DisconnectAll(errors) ==
    /\ UNCHANGED notMCPVars
    /\ errors \subseteq {servers[i] : i \in 1..Len(servers)}
    /\ servers' = <<>>
    /\ sdk_tools' = [sv \in ServerNames |-> <<>>]
    /\ tool_map' = [n \in SdkNames |-> None]
    /\ injected_tools' = <<>>
    /\ UNCHANGED <<server_tools, registry_tools>>
    /\ last_call' = [NoCall EXCEPT !.closed = IF errors # {} THEN "RuntimeError"
                                              ELSE "returned"]

\* A server's tool list changes.
ServerToolsChange(sv, list) ==
    /\ UNCHANGED notMCPVars
    /\ server_tools[sv] # list
    /\ server_tools' = [server_tools EXCEPT ![sv] = list]
    /\ UNCHANGED <<servers, sdk_tools, tool_map, injected_tools, registry_tools>>
    /\ last_call' = NoCall

\* The handler of a converted tool, down to _call_tool_direct: the
\* exception it raises, and the tools/call requests it sends.
CallHandler(td) ==
    IF ~td.conn_ok THEN [raises |-> "AttributeError", sent |-> {}]
    ELSE IF ~InSeq(td.route, servers) THEN [raises |-> "KeyError", sent |-> {}]
    ELSE [raises |-> None, sent |-> {[server |-> td.route, tool |-> td.orig]}]

\* registry.execute(name) for a registered MCP tool.
ExecuteTool(name) ==
    /\ UNCHANGED notMCPVars
    /\ \E td \in registry_tools :
        /\ td.name = name
        /\ LET r == CallHandler(td)
               owner == CHOOSE sv \in ServerNames :
                            \E tl \in McpTools : McpToolName(sv, tl) = name
           IN last_call' = [name |-> name, raises |-> r.raises, sent |-> r.sent,
                            connected |-> InSeq(owner, servers),
                            current |-> InSeq(td, sdk_tools[owner]),
                            closed |-> None]
    /\ UNCHANGED <<server_tools, servers, sdk_tools, tool_map, injected_tools, registry_tools>>

\* The argument lists refresh_tools is called with.
RefreshArgs ==
    {<<>>} \cup {<<x>> : x \in RefreshNames} \cup {<<"s1", "s2">>, <<"s1", "nope">>}

NextMCP ==
    \/ \E sv \in ServerNames : AddServer(sv)
    \/ \E sv \in ServerNames : RemoveServer(sv)
    \/ InjectTools
    \/ RemoveTools
    \/ \E given \in RefreshArgs : RefreshTools(given)
    \/ \E errors \in SUBSET ServerNames : DisconnectAll(errors)
    \/ \E sv \in ServerNames : \E list \in ToolLists(sv) : ServerToolsChange(sv, list)
    \/ \E name \in SdkNames : ExecuteTool(name)

(***************************************************************************)
(* ConversationBuffer (memory/buffer.py) over a MemoryStore: InMemoryStore *)
(* (memory/store.py), whose operations return without suspending, or      *)
(* SQLiteMemoryStore (memory/store_sqlite.py), whose operations run in an  *)
(* executor while the event loop runs other tasks.                         *)
(***************************************************************************)
\* The message of the n-th add.
Entry(n) == [role |-> "user", content |-> "m" \o ToString(n), n |-> n]

\* json.dumps of an entry, as stored.
Dumps(entry) == [json |-> TRUE, text |-> entry]

\* json.loads of a stored item: the decoded entries of a list, an item that
\* does not decode being skipped.
Loads(raw_items) == [i \in 1..Len(SelectSeq(raw_items, LAMBDA r : r.json)) |->
                        SelectSeq(raw_items, LAMBDA r : r.json)[i].text]

IdleCall == [pc |-> "idle", raw_items |-> <<>>]

InitBuffer ==
    /\ store_suspends \in BOOLEAN
    /\ buf_list = <<>>
    /\ buf_meta = None
    /\ added = 0
    /\ gac = [t \in Tasks |-> IdleCall]
    /\ returned = [n \in 1..MaxAdds |-> 0]

\* The event loop can run a step of task t: no other task is inside a call,
\* or the call it is inside is suspended in a store operation.
CanRun(t) == store_suspends \/ \A o \in Tasks \ {t} : gac[o].pc = "idle"

\* add(role, content): one store.append.
Add ==
    /\ UNCHANGED notBufferVars
    /\ added < MaxAdds
    /\ store_suspends \/ \A o \in Tasks : gac[o].pc = "idle"
    /\ added' = added + 1
    /\ buf_list' = Append(buf_list, Dumps(Entry(added + 1)))
    /\ UNCHANGED <<store_suspends, buf_meta, gac, returned>>

\* get_and_clear, line 87: raw_items = await store.get_list(...)
GetList(t) ==
    /\ UNCHANGED notBufferVars
    /\ gac[t].pc = "idle" /\ CanRun(t)
    /\ gac' = [gac EXCEPT ![t] = [pc |-> "got", raw_items |-> buf_list]]
    /\ UNCHANGED <<store_suspends, buf_list, buf_meta, added, returned>>

\* get_and_clear, line 88: await store.clear_list(...)
ClearList(t) ==
    /\ UNCHANGED notBufferVars
    /\ gac[t].pc = "got" /\ CanRun(t)
    /\ buf_list' = <<>>
    /\ gac' = [gac EXCEPT ![t].pc = "cleared"]
    /\ UNCHANGED <<store_suspends, buf_meta, added, returned>>

\* get_and_clear, lines 90-102: the meta is written and the decoded items
\* are returned.
SetMeta(t) ==
    /\ UNCHANGED notBufferVars
    /\ gac[t].pc = "cleared" /\ CanRun(t)
    /\ buf_meta' = "last_extraction"
    /\ LET decoded == Loads(gac[t].raw_items) IN
       returned' = [n \in 1..MaxAdds |->
                      returned[n] + Cardinality({i \in 1..Len(decoded) : decoded[i].n = n})]
    /\ gac' = [gac EXCEPT ![t] = IdleCall]
    /\ UNCHANGED <<store_suspends, buf_list, added>>

NextBuffer ==
    \/ Add
    \/ \E t \in Tasks : GetList(t)
    \/ \E t \in Tasks : ClearList(t)
    \/ \E t \in Tasks : SetMeta(t)

(***************************************************************************)
(* MemoryStore: InMemoryStore (memory/store.py) and SQLiteMemoryStore       *)
(* (memory/store_sqlite.py).                                               *)
(***************************************************************************)
StoreImpls == {"InMemoryStore", "SQLiteMemoryStore"}

\* The values appended to a list.
Items == {"a", "b"}

ListKeys == {"short_term", "buffer"}

Max(a, b) == IF a >= b THEN a ELSE b
Min(a, b) == IF a <= b THEN a ELSE b

\* The Python slice lst[start:].
PySliceFrom(lst, start) ==
    LET n == Len(lst)
        s == IF start < 0 THEN Max(n + start, 0) ELSE Min(start, n)
    IN SubSeq(lst, s + 1, n)

\* InMemoryStore.trim_list: lst[-max_size:] when the list is longer.
TrimInMemory(lst, max_size) ==
    IF Len(lst) > max_size THEN PySliceFrom(lst, 0 - max_size) ELSE lst

\* SQLiteMemoryStore.trim_list: DELETE the MAX(0, COUNT - max_size) rows of
\* lowest id.
TrimSQLite(lst, max_size) ==
    LET deleted == Min(Max(0, Len(lst) - max_size), Len(lst))
    IN SubSeq(lst, deleted + 1, Len(lst))

StoreTrim(impl, lst, max_size) ==
    IF impl = "InMemoryStore" THEN TrimInMemory(lst, max_size)
    ELSE TrimSQLite(lst, max_size)

\* f"{agent_id}:{user_id}" (MemorySession.__init__, line 63).
Namespace(ids) == ids.agent_id \o ":" \o ids.user_id

\* The (agent_id, user_id) pairs sessions are bound to.
IdPairs ==
    { [agent_id |-> "bot", user_id |-> "u1"],
      [agent_id |-> "bot", user_id |-> "u2"],
      [agent_id |-> "a",   user_id |-> "b:c"],
      [agent_id |-> "a:b", user_id |-> "c"] }

Namespaces == { Namespace(ids) : ids \in IdPairs }

Sessions == {1, 2}

\* The namespace of session s.
NS(s) == Namespace(session_ids[s])

(***************************************************************************)
(* JSON values of the long-term memory: a scalar (texts and numbers alike  *)
(* are numbered), null, a list of scalars, or a dict.  Absent stands for   *)
(* no value at all.                                                        *)
(***************************************************************************)
Absent == [kind |-> "absent", n |-> 0, items |-> <<>>, fields |-> {}]
Null == [kind |-> "null", n |-> 0, items |-> <<>>, fields |-> {}]
Scalar(n) == [kind |-> "scalar", n |-> n, items |-> <<>>, fields |-> {}]
List(items) == [kind |-> "list", n |-> 0, items |-> items, fields |-> {}]
Dict(fields) == [kind |-> "dict", n |-> 0, items |-> <<>>, fields |-> fields]
Field(k, v) == [key |-> k, val |-> v]

Keys(d) == { f.key : f \in d.fields }

\* d[k], or Absent
Get(d, k) == IF k \in Keys(d) THEN (CHOOSE f \in d.fields : f.key = k).val ELSE Absent

\* d with d[k] = v
Put(d, k, v) == Dict({ f \in d.fields : f.key # k } \cup {Field(k, v)})

\* datetime.now().isoformat(): some text
Stamp == Scalar(0 - 1)

\* DEFAULT_MEMORY_SCHEMA (memory/types.py).
DefaultSchema ==
    Dict({ Field("basic_info", Dict({})),
           Field("personality", Dict({})),
           Field("life_context", Dict({})),
           Field("interests", List(<<>>)),
           Field("summary", Scalar(0)),
           Field("preferences", Dict({})),
           Field("meta", Dict({ Field("conversation_count", Scalar(0)),
                                Field("created_at", Scalar(0)),
                                Field("updated_at", Scalar(0)) })) })

\* The list branch of _deep_merge: items not yet present, by str, are appended.
RECURSIVE Extend(_, _)
Extend(existing, items) ==
    IF items = <<>> THEN existing
    ELSE Extend(IF InSeq(Head(items), existing) THEN existing
                ELSE Append(existing, Head(items)),
                Tail(items))

\* _deep_merge(base, override), both dicts.
RECURSIVE DeepMerge(_, _)
DeepMerge(base, override) ==
    LET at(k) ==
            LET b == Get(base, k)
                o == Get(override, k)
            IN IF o.kind \in {"absent", "null"} THEN b
               ELSE IF b.kind = "absent" THEN o
               ELSE IF b.kind = "dict" /\ o.kind = "dict" THEN DeepMerge(b, o)
               ELSE IF b.kind = "list" /\ o.kind = "list"
                    THEN List(Extend(b.items, o.items))
               ELSE o
    IN Dict({ Field(k, at(k)) :
                k \in Keys(base) \cup { j \in Keys(override) : Get(override, j).kind # "null" } })

\* Values saved whole (tests/test_memory.py, lines 241-253).
Fulls ==
    { Dict({ Field("basic_info", Dict({Field("age", Scalar(25))})),
             Field("interests", List(<<1>>)),
             Field("meta", Dict({})) }),
      Dict({ Field("meta", Dict({Field("conversation_count", Scalar(2))})) }),
      Dict({ Field("custom", Scalar(3)) }) }

\* Deltas given to update.
Deltas ==
    { Dict({ Field("summary", Scalar(7)) }),
      Dict({ Field("basic_info", Dict({Field("location", Scalar(4))})),
             Field("interests", List(<<1, 2>>)),
             Field("summary", Null) }),
      Dict({ Field("basic_info", Scalar(9)) }),
      Dict({ Field("meta", Dict({Field("conversation_count", Scalar(1))})) }),
      Dict({ Field("meta", Scalar(9)) }) }

(***************************************************************************)
(* The operations: MemoryStore, LongTermMemory (memory/long_term.py),      *)
(* ShortTermMemory (memory/short_term.py), MemorySession                   *)
(* (memory/session.py).                                                    *)
(***************************************************************************)
NoOp == [op |-> None, s |-> 0, key |-> "", n |-> 0, delta |-> Absent, raised |-> None]

Op(name, s) == [NoOp EXCEPT !.op = name, !.s = s]

InitMem ==
    /\ store_impl \in StoreImpls
    /\ store_lists = [ns \in Namespaces |-> [key \in ListKeys |-> <<>>]]
    /\ store_kv = [ns \in Namespaces |-> Absent]
    /\ session_ids \in { f \in [Sessions -> IdPairs] : f[1] # f[2] }
    /\ max_messages \in 1..2
    /\ lt_cache = [s \in Sessions |-> Absent]
    /\ mem_ops = 0
    /\ mem_op = NoOp

\* Every operation is one more operation.
Counted ==
    /\ UNCHANGED notMemVars
    /\ mem_ops < MaxOps
    /\ mem_ops' = mem_ops + 1
    /\ UNCHANGED <<store_impl, session_ids, max_messages>>

\* MemoryStore.append
StoreAppend(s, key, item) ==
    /\ Counted
    /\ store_lists' = [store_lists EXCEPT ![NS(s)][key] = Append(@, item)]
    /\ mem_op' = [Op("append", s) EXCEPT !.key = key]
    /\ UNCHANGED <<store_kv, lt_cache>>

\* MemoryStore.trim_list
StoreTrimList(s, key, max_size) ==
    /\ Counted
    /\ store_lists' = [store_lists EXCEPT ![NS(s)][key] = StoreTrim(store_impl, @, max_size)]
    /\ mem_op' = [Op("trim_list", s) EXCEPT !.key = key, !.n = max_size]
    /\ UNCHANGED <<store_kv, lt_cache>>

\* MemoryStore.clear_list
StoreClearList(s, key) ==
    /\ Counted
    /\ store_lists' = [store_lists EXCEPT ![NS(s)][key] = <<>>]
    /\ mem_op' = [Op("clear_list", s) EXCEPT !.key = key]
    /\ UNCHANGED <<store_kv, lt_cache>>

\* What LongTermMemory.get returns; cache_hit: the cache is enabled and young.
LTRead(s, cache_hit) ==
    IF lt_cache[s] # Absent /\ cache_hit THEN lt_cache[s]
    ELSE IF store_kv[NS(s)] # Absent THEN store_kv[NS(s)]
    ELSE Put(DefaultSchema, "meta", Put(Get(DefaultSchema, "meta"), "created_at", Stamp))

\* LongTermMemory.get
LTGet(s, cache_hit) ==
    /\ Counted
    /\ lt_cache' = [lt_cache EXCEPT ![s] = LTRead(s, cache_hit)]
    /\ mem_op' = Op("get", s)
    /\ UNCHANGED <<store_lists, store_kv>>

\* The body of LongTermMemory.save: meta.updated_at is stamped, which raises
\* when meta is no dict.
Saved(data) ==
    IF "meta" \notin Keys(data) THEN [raises |-> None, data |-> data]
    ELSE IF Get(data, "meta").kind # "dict" THEN [raises |-> "TypeError", data |-> data]
    ELSE [raises |-> None,
          data |-> Put(data, "meta", Put(Get(data, "meta"), "updated_at", Stamp))]

\* LongTermMemory.save
LTSave(s, data) ==
    /\ Counted
    /\ LET sv == Saved(data) IN
       /\ store_kv' = IF sv.raises = None THEN [store_kv EXCEPT ![NS(s)] = sv.data]
                      ELSE store_kv
       /\ lt_cache' = IF sv.raises = None THEN [lt_cache EXCEPT ![s] = sv.data]
                      ELSE lt_cache
       /\ mem_op' = [Op("save", s) EXCEPT !.raised = sv.raises]
    /\ UNCHANGED store_lists

\* LongTermMemory.update up to save: the merge and the count.  A meta that
\* is no dict has no get, and a count that is a list or a dict takes no + 1:
\* both raise.  A scalar count is taken as a number.
Merged(current, updates) ==
    LET m     == DeepMerge(current, updates)
        meta  == Get(m, "meta")
        count == Get(meta, "conversation_count")
    IN IF "meta" \notin Keys(m) THEN [raises |-> None, data |-> m]
       ELSE IF meta.kind # "dict" THEN [raises |-> "AttributeError", data |-> m]
       ELSE IF count.kind \notin {"absent", "scalar"}
            THEN [raises |-> "TypeError", data |-> m]
       ELSE [raises |-> None,
             data |-> Put(m, "meta",
                        Put(Put(meta, "conversation_count",
                                Scalar((IF count.kind = "absent" THEN 0 ELSE count.n) + 1)),
                            "updated_at", Stamp))]

\* LongTermMemory.update
LTUpdate(s, updates, cache_hit) ==
    /\ Counted
    /\ LET current == LTRead(s, cache_hit)
           mg == Merged(current, updates)
           sv == Saved(mg.data)
           ok == mg.raises = None /\ sv.raises = None
       IN
       /\ store_kv' = IF ok THEN [store_kv EXCEPT ![NS(s)] = sv.data] ELSE store_kv
       /\ lt_cache' = [lt_cache EXCEPT ![s] = IF ok THEN sv.data ELSE current]
       /\ mem_op' = [Op("update", s) EXCEPT
                       !.delta = updates,
                       !.raised = IF mg.raises # None THEN mg.raises ELSE sv.raises]
    /\ UNCHANGED store_lists

\* LongTermMemory.delete
LTDelete(s) ==
    /\ Counted
    /\ store_kv' = [store_kv EXCEPT ![NS(s)] = Absent]
    /\ lt_cache' = [lt_cache EXCEPT ![s] = Absent]
    /\ mem_op' = Op("delete", s)
    /\ UNCHANGED store_lists

\* MemorySession.add_message: ShortTermMemory.add_message (append, then
\* trim_list to max_messages), then ConversationBuffer.add.
AddMessage(s, item) ==
    /\ Counted
    /\ store_lists' =
         [store_lists EXCEPT
            ![NS(s)] = [@ EXCEPT
               !["short_term"] = StoreTrim(store_impl, Append(@, item), max_messages),
               !["buffer"] = Append(@, item)]]
    /\ mem_op' = Op("add_message", s)
    /\ UNCHANGED <<store_kv, lt_cache>>

\* MemorySession.clear_history
ClearHistory(s) ==
    /\ Counted
    /\ store_lists' = [store_lists EXCEPT ![NS(s)]["short_term"] = <<>>]
    /\ mem_op' = Op("clear_history", s)
    /\ UNCHANGED <<store_kv, lt_cache>>

\* MemorySession.clear_buffer
ClearBuffer(s) ==
    /\ Counted
    /\ store_lists' = [store_lists EXCEPT ![NS(s)]["buffer"] = <<>>]
    /\ mem_op' = Op("clear_buffer", s)
    /\ UNCHANGED <<store_kv, lt_cache>>

\* MemorySession.clear_all
ClearAll(s) ==
    /\ Counted
    /\ store_lists' = [store_lists EXCEPT ![NS(s)] = [key \in ListKeys |-> <<>>]]
    /\ store_kv' = [store_kv EXCEPT ![NS(s)] = Absent]
    /\ lt_cache' = [lt_cache EXCEPT ![s] = Absent]
    /\ mem_op' = Op("clear_all", s)

\* MemorySession.load: the history is read and long_term.get called.
Load(s, cache_hit) ==
    /\ Counted
    /\ lt_cache' = [lt_cache EXCEPT ![s] = LTRead(s, cache_hit)]
    /\ mem_op' = Op("load", s)
    /\ UNCHANGED <<store_lists, store_kv>>

\* MemorySession.save_long_term: long_term.get, then long_term.save of it.
SaveLongTerm(s, cache_hit) ==
    /\ Counted
    /\ LET sv == Saved(LTRead(s, cache_hit)) IN
       /\ store_kv' = [store_kv EXCEPT ![NS(s)] = sv.data]
       /\ lt_cache' = [lt_cache EXCEPT ![s] = sv.data]
       /\ mem_op' = Op("save_long_term", s)
    /\ UNCHANGED store_lists

\* MemorySession.update_long_term
UpdateLongTerm(s, updates, cache_hit) == LTUpdate(s, updates, cache_hit)

\* The store used directly, on one list.
NextStore ==
    \/ \E item \in Items : StoreAppend(1, "short_term", item)
    \/ \E max_size \in 0..MaxOps : StoreTrimList(1, "short_term", max_size)
    \/ StoreClearList(1, "short_term")

\* One LongTermMemory.
NextLongTerm ==
    \/ \E cache_hit \in BOOLEAN : LTGet(1, cache_hit)
    \/ \E data \in Fulls : LTSave(1, data)
    \/ \E updates \in Deltas, cache_hit \in BOOLEAN : LTUpdate(1, updates, cache_hit)
    \/ LTDelete(1)

\* The delta the sessions update with.
SessionDelta == Dict({ Field("summary", Scalar(7)) })

\* Two MemorySessions over one store.
NextSession ==
    \E s \in Sessions :
        \/ AddMessage(s, "a")
        \/ Load(s, TRUE)
        \/ SaveLongTerm(s, TRUE)
        \/ UpdateLongTerm(s, SessionDelta, TRUE)
        \/ ClearHistory(s)
        \/ ClearBuffer(s)
        \/ ClearAll(s)

(***************************************************************************)
(* One tool invocation: MCPManager._call_tool_direct (mcp/manager.py) with *)
(* MCPTransportError (mcp/transport.py).                                   *)
(***************************************************************************)
\* max_retries when the config gives none (add_server, lines 64-65).
DefaultMaxRetries == 3

\* add_server: a max_retries <= 0 becomes the default.
NormaliseRetries(given) == IF given <= 0 THEN DefaultMaxRetries ELSE given

\* Outcomes of conn.client.call_tool: a result, an MCPTransportError with
\* its HTTP status, any other exception.
Outcomes ==
    { [kind |-> "result", status |-> 200],
      [kind |-> "MCPTransportError", status |-> 404],
      [kind |-> "MCPTransportError", status |-> 429],
      [kind |-> "MCPTransportError", status |-> 499],
      [kind |-> "MCPTransportError", status |-> 500],
      [kind |-> "MCPTransportError", status |-> 503],
      [kind |-> "MCPError", status |-> 200] }

\* An is_retryable that is always true.
IsRetryable_Always(status_code) == TRUE

\* MCPTransportError.is_retryable
IsRetryable(status_code) == status_code >= 500 \/ status_code = 429

\* (2 ** (attempt - 1)) * 0.1 seconds, in tenths
Backoff(attempt) == 2 ^ (attempt - 1)

InitCall ==
    /\ call_max_retries \in { NormaliseRetries(given) : given \in (0 - 1)..MaxRetries }
    /\ call_pc = "idle"
    /\ call_attempt = 0
    /\ call_count = 0
    /\ call_sleeps = <<>>
    /\ call_log = <<>>
    /\ call_raised = None

\* _call_tool_direct is entered with a connected server; the for loop
\* starts, or ends at once when range(max_retries + 1) is empty.
CallToolDirect ==
    /\ UNCHANGED notCallVars
    /\ call_pc = "idle"
    /\ call_attempt' = 0
    /\ call_pc' = "call"
    /\ UNCHANGED <<call_max_retries, call_count, call_sleeps, call_log, call_raised>>

\* attempt > 0: asyncio.sleep(backoff)
Sleep ==
    /\ UNCHANGED notCallVars
    /\ call_pc = "sleep"
    /\ call_sleeps' = Append(call_sleeps, Backoff(call_attempt))
    /\ call_pc' = "call"
    /\ UNCHANGED <<call_max_retries, call_attempt, call_count, call_log, call_raised>>

\* conn.client.call_tool and the except clauses (lines 175-184), then the
\* loop header or the RuntimeError after the loop.
Attempt(outcome) ==
    /\ UNCHANGED notCallVars
    /\ call_pc = "call"
    /\ call_count' = call_count + 1
    /\ call_log' = Append(call_log, outcome)
    /\ IF outcome.kind = "result"
       THEN /\ call_pc' = "returned"
            /\ UNCHANGED <<call_attempt, call_raised>>
       ELSE IF outcome.kind = "MCPTransportError" /\ IsRetryable(outcome.status)
       THEN IF call_attempt + 1 < call_max_retries + 1
            THEN /\ call_attempt' = call_attempt + 1
                 /\ call_pc' = "sleep"
                 /\ UNCHANGED call_raised
            ELSE /\ call_pc' = "raised"
                 /\ call_raised' = "RuntimeError"
                 /\ UNCHANGED call_attempt
       ELSE /\ call_pc' = "raised"
            /\ call_raised' = outcome.kind
            /\ UNCHANGED call_attempt
    /\ UNCHANGED <<call_max_retries, call_sleeps>>

NextCall ==
    \/ CallToolDirect
    \/ Sleep
    \/ \E outcome \in Outcomes : Attempt(outcome)

(***************************************************************************)
(* ProactiveScheduler (proactive/scheduler.py).                            *)
(***************************************************************************)
\* _triggers, in insertion order; each has a check_fn and a message_fn.
Triggers == <<"daily", "birthday">>
SchedUsers == {"u1"}
\* What a check_fn returns: a list of user ids.
UserLists == {<<>>, <<"u1">>, <<"u1", "u1">>}
NoDay == 0 - 1
PollTasks == 1..MaxTasks

\* A poll task: pc is the await it is suspended at ("cancelling": Task.cancel()
\* was called on it, it ends when it runs next; "none": the slot holds no
\* unfinished task); ctx_day: ctx.now.date() of the tick; trig: the index of
\* the trigger under way; users: the user ids of the for loop not yet done,
\* the current one first; ran: the triggers run in this tick; failed: a
\* check_fn or message_fn raised in this tick; after_failure: one raised in
\* the tick before.
NoTask ==
    [pc |-> "none", ctx_day |-> 0, trig |-> 0, users |-> <<>>,
     ran |-> 0, failed |-> FALSE, after_failure |-> FALSE]

Active(k) == poll[k].pc \notin {"none", "cancelling"}

FreeSlot == CHOOSE k \in PollTasks :
    poll[k].pc = "none" /\ \A j \in 1..(k - 1) : poll[j].pc # "none"

InitSched ==
    /\ running = FALSE
    /\ poll_task = 0
    /\ poll = [k \in PollTasks |-> NoTask]
    /\ sent_today = [ut \in SchedUsers \X (1..Len(Triggers)) |-> NoDay]
    /\ sends = [ut \in SchedUsers \X (1..Len(Triggers)) |-> 0]
    /\ clock_day = 0
    /\ sched_op = [op |-> "", created |-> FALSE]

\* start without its guard.
StartCall_NoGuard ==
    /\ \E k \in PollTasks : poll[k].pc = "none"
    /\ running' = TRUE
    /\ poll_task' = FreeSlot
    /\ poll' = [poll EXCEPT ![FreeSlot] = [NoTask EXCEPT !.pc = "start"]]
    /\ sched_op' = [op |-> "start", created |-> TRUE]
    /\ UNCHANGED <<sent_today, sends, clock_day>>
    /\ UNCHANGED notSchedVars

\* start: nothing when _running; else _running = True and a new poll task.
StartCall ==
    /\ IF running
       THEN /\ sched_op' = [op |-> "start", created |-> FALSE]
            /\ UNCHANGED <<running, poll_task, poll>>
       ELSE /\ \E k \in PollTasks : poll[k].pc = "none"
            /\ running' = TRUE
            /\ poll_task' = FreeSlot
            /\ poll' = [poll EXCEPT ![FreeSlot] = [NoTask EXCEPT !.pc = "start"]]
            /\ sched_op' = [op |-> "start", created |-> TRUE]
    /\ UNCHANGED <<sent_today, sends, clock_day>>
    /\ UNCHANGED notSchedVars

\* stop: _running = False, cancel _task and await it.  Cancelling a task
\* that has ended does nothing.
StopCall ==
    /\ running' = FALSE
    /\ poll' = IF poll_task > 0 /\ poll[poll_task].pc # "none"
               THEN [poll EXCEPT ![poll_task] = [NoTask EXCEPT !.pc = "cancelling"]]
               ELSE poll
    /\ sched_op' = [op |-> "stop", created |-> FALSE]
    /\ UNCHANGED <<poll_task, sent_today, sends, clock_day>>
    /\ UNCHANGED notSchedVars

\* A cancelled task runs: CancelledError is raised at its await; it is no
\* Exception, no except clause of the loop holds it, the task ends.
TaskCancelled(k) ==
    /\ poll[k].pc = "cancelling"
    /\ poll' = [poll EXCEPT ![k] = NoTask]
    /\ UNCHANGED <<running, poll_task, sent_today, sends, clock_day, sched_op>>
    /\ UNCHANGED notSchedVars

\* while self._running: a new tick, ctx made from the clock, the first trigger.
LoopTop(t) ==
    IF ~running THEN NoTask
    ELSE [t EXCEPT !.pc = "check", !.ctx_day = clock_day, !.trig = 1,
                   !.users = <<>>, !.ran = 1,
                   !.failed = FALSE, !.after_failure = t.failed]

\* _run_trigger returned: the next trigger of the tick, or the sleep.
NextTrigger(t) ==
    IF t.trig < Len(Triggers)
    THEN [t EXCEPT !.pc = "check", !.trig = t.trig + 1, !.users = <<>>,
                   !.ran = t.ran + 1]
    ELSE [t EXCEPT !.pc = "sleep", !.trig = 0, !.users = <<>>]

\* An error leaves _run_trigger and is caught by _poll_loop.
TriggerError_Escapes(t) ==
    [t EXCEPT !.pc = "sleep", !.trig = 0, !.users = <<>>, !.failed = TRUE]

\* The except clause of _run_trigger: logged, _run_trigger returns.
TriggerError(t) == NextTrigger([t EXCEPT !.failed = TRUE])

\* already_sent_today: the users for whom the loop body goes on.
RECURSIVE SkipSent(_, _, _, _)
SkipSent(us, trig, sent, today) ==
    IF us = <<>> THEN <<>>
    ELSE IF sent[<<Head(us), trig>>] = today THEN SkipSent(Tail(us), trig, sent, today)
    ELSE us

\* The for loop over user_ids up to its next await of message_fn.
ForUsers(t, us, sent) ==
    LET rest == SkipSent(us, t.trig, sent, clock_day) IN
    IF rest = <<>> THEN NextTrigger(t)
    ELSE [t EXCEPT !.pc = "message", !.users = rest]

\* The poll task runs for the first time.
TaskBegin(k) ==
    /\ poll[k].pc = "start"
    /\ poll' = [poll EXCEPT ![k] = LoopTop(poll[k])]
    /\ UNCHANGED <<running, poll_task, sent_today, sends, clock_day, sched_op>>
    /\ UNCHANGED notSchedVars

\* await handle.check_fn(ctx) ends: a list of user ids, or an exception.
CheckReturns(k, outcome) ==
    /\ poll[k].pc = "check"
    /\ poll' = [poll EXCEPT ![k] =
                   IF outcome = <<"raise">> THEN TriggerError(poll[k])
                   ELSE ForUsers(poll[k], outcome, sent_today)]
    /\ UNCHANGED <<running, poll_task, sent_today, sends, clock_day, sched_op>>
    /\ UNCHANGED notSchedVars

\* await handle.message_fn(ctx, user_id) ends: a text, None, or an
\* exception; a text goes to _send, which calls send_fn.
MessageReturns(k, outcome) ==
    /\ poll[k].pc = "message"
    /\ LET t == poll[k]
           ut == <<Head(t.users), t.trig>> IN
       CASE outcome = "raise" ->
              poll' = [poll EXCEPT ![k] = TriggerError(t)] /\ UNCHANGED sends
         [] outcome = "none" ->
              /\ poll' = [poll EXCEPT ![k] = ForUsers(t, Tail(t.users), sent_today)]
              /\ UNCHANGED sends
         [] OTHER ->
              /\ sends[ut] < MaxSends
              /\ sends' = [sends EXCEPT ![ut] = @ + 1]
              /\ poll' = [poll EXCEPT ![k].pc = "send"]
    /\ UNCHANGED <<running, poll_task, sent_today, clock_day, sched_op>>
    /\ UNCHANGED notSchedVars

\* await self.send_fn(user_id, text) ends, with or without an exception
\* (_send logs it): record_sent(user_id, name, ctx.now), next user.
SendReturns(k) ==
    /\ poll[k].pc = "send"
    /\ LET t == poll[k]
           sent == [sent_today EXCEPT ![<<Head(t.users), t.trig>>] = t.ctx_day] IN
       /\ sent_today' = sent
       /\ poll' = [poll EXCEPT ![k] = ForUsers(t, Tail(t.users), sent)]
    /\ UNCHANGED <<running, poll_task, sends, clock_day, sched_op>>
    /\ UNCHANGED notSchedVars

\* await asyncio.sleep(self.interval) ends.
SleepReturns(k) ==
    /\ poll[k].pc = "sleep"
    /\ poll' = [poll EXCEPT ![k] = LoopTop(poll[k])]
    /\ UNCHANGED <<running, poll_task, sent_today, sends, clock_day, sched_op>>
    /\ UNCHANGED notSchedVars

\* The clock passes midnight: a new calendar day, with no send on it yet.
Midnight ==
    /\ clock_day < MaxDay
    /\ clock_day' = clock_day + 1
    /\ sends' = [ut \in DOMAIN sends |-> 0]
    /\ UNCHANGED <<running, poll_task, poll, sent_today, sched_op>>
    /\ UNCHANGED notSchedVars

NextSched ==
    \/ StartCall
    \/ StopCall
    \/ \E k \in PollTasks : TaskBegin(k)
    \/ \E k \in PollTasks : TaskCancelled(k)
    \/ \E k \in PollTasks, outcome \in UserLists \cup {<<"raise">>} : CheckReturns(k, outcome)
    \/ \E k \in PollTasks, outcome \in {"text", "none", "raise"} : MessageReturns(k, outcome)
    \/ \E k \in PollTasks : SendReturns(k)
    \/ \E k \in PollTasks : SleepReturns(k)
    \/ Midnight

(***************************************************************************)
(* AgentOrchestrator (agent/orchestrator.py) over the HandoffEngine.       *)
(***************************************************************************)
\* CoordinatorDecision.from_json of the coordinator's answer.
Decisions ==
    [selected_agents : SeqsUpTo({"a", "priv", "anon", "zz"}, MaxSelected),
     execution_mode : {"sequential", "parallel"},
     fallback_response : {"", "sorry"}]

NoDecision == [selected_agents |-> <<>>, execution_mode |-> "sequential",
               fallback_response |-> ""]

\* stopped_reason of the entry agent's AgentLoop.run.
StoppedReasons == {"completed", "max_turns", "error"}

\* HandoffResult(output=..., agent_id=..., status=..., error=...)
OrchResult(output, agent_id, status, code) ==
    [NoResult EXCEPT !.output = output, !.agent_id = agent_id, !.status = status,
                     !.error = code]

\* The HandoffRequest _run_coordinator makes for a selected agent.
CoordinatorRequest(agent_id, owner_id) ==
    [from_agent |-> "coordinator", to_agent |-> agent_id,
     requested_mode |-> "coordinator", request_id |-> "uuid", hop_count |-> 0,
     visited_agents |-> <<>>, caller_owner_id |-> owner_id, caller_org_id |-> ""]

\* What engine.handoff(request) may return: the error of steps 2-4, or the
\* outcome of the target's run.
EngineResults(request) ==
    LET err == PreCheck([max_hop_count |-> DefaultMaxHopCount,
                         allow_cross_owner |-> FALSE], request) IN
    IF err # None THEN {ErrorResult(request, err)}
    ELSE {SuccessResult(request, "out"), ErrorResult(request, "TIMEOUT"),
          ErrorResult(request, "TOOL_ERROR")}

InitOrch ==
    /\ orch \in [mode : {"tool_based", "coordinator"},
                 entry_agent_id : {"a", "zz"},
                 coordinator_llm_fn : BOOLEAN,
                 owner_id : {"dev1", ""},
                 pc : {"idle"},
                 catalog : {{}},
                 decision : {NoDecision},
                 issued : {0},
                 results : {<<>>}]
    /\ orch_out = NoResult

\* run: the mode, then _run_tool_based or _run_coordinator up to its first await.
OrchRun ==
    /\ orch.pc = "idle"
    /\ IF orch.mode = "coordinator"
       THEN IF ~orch.coordinator_llm_fn
            THEN /\ orch' = [orch EXCEPT !.pc = "done"]
                 /\ orch_out' = OrchResult("", "", "error", "MODEL_ERROR")
            ELSE /\ orch' = [orch EXCEPT !.pc = "coordinator_llm", !.catalog = ListAll]
                 /\ UNCHANGED orch_out
       ELSE IF RegistryGet(orch.entry_agent_id) = {}
            THEN /\ orch' = [orch EXCEPT !.pc = "done"]
                 /\ orch_out' = OrchResult("", "", "error", "NOT_FOUND")
            ELSE /\ orch' = [orch EXCEPT !.pc = "entry_loop"]
                 /\ UNCHANGED orch_out
    /\ UNCHANGED notOrchVars

\* _run_tool_based: the entry agent's loop returned.
EntryLoopReturns(stopped_reason) ==
    /\ orch.pc = "entry_loop"
    /\ orch' = [orch EXCEPT !.pc = "done"]
    /\ orch_out' = OrchResult("final", orch.entry_agent_id,
                              IF stopped_reason = "completed" THEN "completed"
                              ELSE stopped_reason,
                              None)
    /\ UNCHANGED notOrchVars

\* _run_coordinator: coordinator_llm_fn raised.
CoordinatorRaises ==
    /\ orch.pc = "coordinator_llm"
    /\ orch' = [orch EXCEPT !.pc = "done"]
    /\ orch_out' = OrchResult("", "", "error", "MODEL_ERROR")
    /\ UNCHANGED notOrchVars

\* _run_coordinator: coordinator_llm_fn returned, the decision is parsed.
CoordinatorDecides(decision) ==
    /\ orch.pc = "coordinator_llm"
    /\ IF decision.selected_agents = <<>>
       THEN /\ orch' = [orch EXCEPT !.pc = "done", !.decision = decision]
            /\ orch_out' = OrchResult(IF decision.fallback_response # ""
                                      THEN decision.fallback_response ELSE "content",
                                      "", "completed", None)
       ELSE /\ orch' = [orch EXCEPT !.pc = "handoffs", !.decision = decision,
                                    !.issued = 1]
            /\ UNCHANGED orch_out
    /\ UNCHANGED notOrchVars

\* The first success of the results; else the fallback; else the last result.
BestResult(rs, decision) ==
    IF \E i \in 1..Len(rs) : rs[i].status = "success"
    THEN rs[CHOOSE i \in 1..Len(rs) :
                    /\ rs[i].status = "success"
                    /\ \A j \in 1..(i - 1) : rs[j].status # "success"]
    ELSE IF decision.fallback_response # ""
    THEN OrchResult(decision.fallback_response, "", "completed", None)
    ELSE IF rs # <<>> THEN Last(rs)
    ELSE OrchResult("", "", "error", None)

\* _run_coordinator: engine.handoff for the selected agent in turn returned;
\* unless the loop ends here, the request for the next agent is made.
OrchHandoff(res) ==
    /\ orch.pc = "handoffs"
    /\ LET d == orch.decision
           i == Len(orch.results) + 1
           rs == Append(orch.results, res) IN
       /\ res \in EngineResults(CoordinatorRequest(d.selected_agents[i], orch.owner_id))
       /\ IF (d.execution_mode = "sequential" /\ res.status = "success")
             \/ i = Len(d.selected_agents)
          THEN /\ orch' = [orch EXCEPT !.pc = "done", !.results = rs]
               /\ orch_out' = BestResult(rs, d)
          ELSE /\ orch' = [orch EXCEPT !.results = rs, !.issued = @ + 1]
               /\ UNCHANGED orch_out
    /\ UNCHANGED notOrchVars

AllEngineResults ==
    UNION { EngineResults(CoordinatorRequest(a, o)) :
                a \in {"a", "priv", "anon", "zz"}, o \in {"dev1", ""} }

NextOrch ==
    \/ OrchRun
    \/ \E stopped_reason \in StoppedReasons : EntryLoopReturns(stopped_reason)
    \/ CoordinatorRaises
    \/ \E decision \in Decisions : CoordinatorDecides(decision)
    \/ \E res \in AllEngineResults : OrchHandoff(res)

(***************************************************************************)
(* Tracer (tracing/engine.py).  Spans are context managers, so the span    *)
(* that closes is always the one entered last among those still open.      *)
(***************************************************************************)
SpanIds == 1..MaxSpans

NoSpan == [parent_id |-> 0, status |-> "none"]

\* Tracer(exporter, enabled): enabled is the caller's choice.
InitTrace ==
    /\ tracer_enabled \in BOOLEAN
    /\ span_stack = <<>>
    /\ spans = [s \in SpanIds |-> NoSpan]
    /\ exported = [s \in SpanIds |-> 0]

\* new_trace: a fresh trace id and an empty span stack.
NewTrace ==
    /\ span_stack # <<>>
    /\ span_stack' = <<>>
    /\ UNCHANGED <<tracer_enabled, spans, exported>>
    /\ UNCHANGED notTraceVars

\* _export: the exporter gets the span when tracing is on and the span has
\* no parent.
Export(ex, s) ==
    IF tracer_enabled /\ spans[s].parent_id = 0
        THEN [ex EXCEPT ![s] = @ + 1]
        ELSE ex

\* span(), up to the yield.  A disabled tracer yields a span it does not
\* keep: that branch leaves the tracer as it was.
EnterSpan ==
    /\ tracer_enabled
    /\ \E s \in SpanIds :
        /\ spans[s].status = "none"
        /\ \A r \in SpanIds : r < s => spans[r].status # "none"
        /\ spans' = [spans EXCEPT ![s] =
                [parent_id |-> IF span_stack # <<>> THEN Last(span_stack) ELSE 0,
                 status |-> "open"]]
        /\ span_stack' = Append(span_stack, s)
    /\ UNCHANGED <<tracer_enabled, exported>>
    /\ UNCHANGED notTraceVars

Innermost ==
    CHOOSE s \in SpanIds :
        /\ spans[s].status = "open"
        /\ \A r \in SpanIds : spans[r].status = "open" => r <= s

Pop(stack) == SubSeq(stack, 1, Len(stack) - 1)

\* span(), after the yield: the body returned (body_raised = FALSE) or raised an
\* Exception.  The except clause ends the span, pops the stack and exports;
\* the finally clause runs after either clause and exports as well.  pop() on
\* an empty stack raises IndexError inside the except clause, which skips
\* that clause's export.
ExitSpan(body_raised) ==
    /\ \E s \in SpanIds : spans[s].status = "open"
    /\ LET s == Innermost
           popped == IF span_stack # <<>> THEN Pop(span_stack) ELSE span_stack
           after_except ==
               IF body_raised
                   THEN [stack |-> popped,
                         ex |-> IF span_stack # <<>> THEN Export(exported, s) ELSE exported]
                   ELSE [stack |-> span_stack, ex |-> exported]
           in_stack == \E i \in 1..Len(after_except.stack) : after_except.stack[i] = s
       IN /\ spans' = [spans EXCEPT ![s].status = IF body_raised THEN "error" ELSE "ok"]
          /\ span_stack' = IF in_stack THEN Pop(after_except.stack) ELSE after_except.stack
          /\ exported' = Export(after_except.ex, s)
    /\ UNCHANGED tracer_enabled
    /\ UNCHANGED notTraceVars

NextTrace ==
    \/ NewTrace
    \/ EnterSpan
    \/ \E body_raised \in BOOLEAN : ExitSpan(body_raised)

(***************************************************************************)
(* MCPClient._call over StdioTransport.call (mcp/protocol.py,              *)
(* mcp/transport.py).  The child answers its requests in the order it read *)
(* them.                                                                   *)
(***************************************************************************)
RpcTasks == {"t1", "t2"}

NoRpc == [pc |-> "idle", id |-> 0, resp |-> 0]

InitStdio ==
    /\ rpc_next_id = 0
    /\ server_in = <<>>
    /\ stdout_lines = <<>>
    /\ getters = <<>>
    /\ rpc = [t \in RpcTasks |-> NoRpc]

\* _call up to the await of _lines.get(): the next id, the request written
\* to stdin.
RpcCall(t) ==
    /\ rpc[t].pc # "waiting"
    /\ rpc_next_id < MaxRpcId
    /\ rpc_next_id' = rpc_next_id + 1
    /\ server_in' = Append(server_in, rpc_next_id + 1)
    /\ getters' = Append(getters, t)
    /\ rpc' = [rpc EXCEPT ![t] = [pc |-> "waiting", id |-> rpc_next_id + 1, resp |-> 0]]
    /\ UNCHANGED stdout_lines
    /\ UNCHANGED notStdioVars

\* The child answers its oldest request; _read_stdout puts the frame in the
\* queue.
ServerAnswers ==
    /\ server_in # <<>>
    /\ server_in' = Tail(server_in)
    /\ stdout_lines' = Append(stdout_lines, Head(server_in))
    /\ UNCHANGED <<rpc_next_id, getters, rpc>>
    /\ UNCHANGED notStdioVars

\* _lines.get() returns for the task that waits longest: call returns the
\* frame at the head of the queue and _call returns its result.
RpcReturns(t) ==
    /\ getters # <<>> /\ Head(getters) = t
    /\ stdout_lines # <<>>
    /\ rpc' = [rpc EXCEPT ![t].pc = "returned", ![t].resp = Head(stdout_lines)]
    /\ stdout_lines' = Tail(stdout_lines)
    /\ getters' = Tail(getters)
    /\ UNCHANGED <<rpc_next_id, server_in>>
    /\ UNCHANGED notStdioVars

\* wait_for gives up: asyncio.TimeoutError leaves call and _call.
RpcTimeout(t) ==
    /\ rpc[t].pc = "waiting"
    /\ rpc' = [rpc EXCEPT ![t].pc = "timeout"]
    /\ getters' = SelectSeq(getters, LAMBDA g : g # t)
    /\ UNCHANGED <<rpc_next_id, server_in, stdout_lines>>
    /\ UNCHANGED notStdioVars

NextStdio ==
    \/ \E t \in RpcTasks : RpcCall(t)
    \/ ServerAnswers
    \/ \E t \in RpcTasks : RpcReturns(t)
    \/ \E t \in RpcTasks : RpcTimeout(t)

(***************************************************************************)
(* LongTermMemory.update called by two tasks (memory/long_term.py).  A     *)
(* task gives way to the other one only where an await suspends: the       *)
(* methods of InMemoryStore never suspend, those of SQLiteMemoryStore run  *)
(* in an executor and do.  The cache is younger than its 300 s lifetime.   *)
(***************************************************************************)
UpdTasks == {"u1", "u2"}

\* The updates arguments: they touch different keys.
UpdDeltas ==
    { Dict({ Field("summary", Scalar(7)) }),
      Dict({ Field("basic_info", Dict({Field("location", Scalar(4))})),
             Field("interests", List(<<1, 2>>)) }) }

\* What the store holds before the calls: nothing, or a saved memory.
UpdStored ==
    { Absent,
      Dict({ Field("interests", List(<<1>>)),
             Field("meta", Dict({ Field("conversation_count", Scalar(2)),
                                  Field("updated_at", Stamp) })) }) }

NoUpd == [pc |-> "idle", updates |-> Absent, data |-> Absent]

InitUpd ==
    /\ upd_store \in StoreImpls
    /\ upd_init \in UpdStored
    /\ upd_kv = upd_init
    /\ upd_cache \in {Absent, upd_init}
    /\ upd = [t \in UpdTasks |-> NoUpd]

\* get() past the cache: the stored value, or the default schema.
UpdLoaded ==
    IF upd_kv # Absent THEN upd_kv
    ELSE Put(DefaultSchema, "meta", Put(Get(DefaultSchema, "meta"), "created_at", Stamp))

\* update from the merge to the json.dumps of save.
UpdToSave(current, updates) == Saved(Merged(current, updates).data).data

\* update(updates) is called and runs to its first await that suspends.
UpdateCall(t, updates) ==
    /\ upd[t].pc = "idle"
    /\ IF upd_store = "InMemoryStore"
       THEN LET current == IF upd_cache # Absent THEN upd_cache ELSE UpdLoaded
                data == UpdToSave(current, updates) IN
            /\ upd_kv' = data
            /\ upd_cache' = data
            /\ upd' = [upd EXCEPT ![t] = [pc |-> "done", updates |-> updates, data |-> data]]
       ELSE IF upd_cache # Absent
       THEN /\ upd' = [upd EXCEPT ![t] = [pc |-> "set", updates |-> updates,
                                          data |-> UpdToSave(upd_cache, updates)]]
            /\ UNCHANGED <<upd_kv, upd_cache>>
       ELSE /\ upd' = [upd EXCEPT ![t] = [pc |-> "get", updates |-> updates, data |-> Absent]]
            /\ UNCHANGED <<upd_kv, upd_cache>>
    /\ UNCHANGED <<upd_store, upd_init>>
    /\ UNCHANGED notUpdVars

\* await self._store.get returns: get() fills the cache, update merges and
\* save runs to await self._store.set.
UpdGetReturns(t) ==
    /\ upd[t].pc = "get"
    /\ upd_cache' = UpdLoaded
    /\ upd' = [upd EXCEPT ![t].pc = "set", ![t].data = UpdToSave(UpdLoaded, upd[t].updates)]
    /\ UNCHANGED <<upd_store, upd_init, upd_kv>>
    /\ UNCHANGED notUpdVars

\* await self._store.set returns: the value is stored, save sets the cache.
UpdSetReturns(t) ==
    /\ upd[t].pc = "set"
    /\ upd_kv' = upd[t].data
    /\ upd_cache' = upd[t].data
    /\ upd' = [upd EXCEPT ![t].pc = "done"]
    /\ UNCHANGED <<upd_store, upd_init>>
    /\ UNCHANGED notUpdVars

NextUpd ==
    \/ \E t \in UpdTasks, updates \in UpdDeltas : UpdateCall(t, updates)
    \/ \E t \in UpdTasks : UpdGetReturns(t)
    \/ \E t \in UpdTasks : UpdSetReturns(t)

(***************************************************************************)
(* ProactiveScheduler._run_trigger with the UserStore's enablement and the *)
(* outcome of the send callback (proactive/scheduler.py): one trigger,     *)
(* the ticks of one day.                                                   *)
(***************************************************************************)
TrigUsers == {"u1", "u2"}

\* What check_fn returns.
TrigUserLists == {<<>>, <<"u1">>, <<"u2">>, <<"u1", "u2">>}

NoSend == [user |-> "", enabled |-> FALSE]

TrigIdle == [pc |-> "idle", users |-> <<>>]

InitTrig ==
    /\ send_fn_set \in BOOLEAN
    /\ enabled_users = {}
    /\ recorded = {}
    /\ delivered = {}
    /\ last_send = NoSend
    /\ trig_run = TrigIdle

\* enable_user(user_id, [trigger])
EnableUser(u) ==
    /\ u \notin enabled_users
    /\ enabled_users' = enabled_users \cup {u}
    /\ UNCHANGED <<send_fn_set, recorded, delivered, last_send, trig_run>>
    /\ UNCHANGED notTrigVars

\* disable_user(user_id, [trigger])
DisableUser(u) ==
    /\ u \in enabled_users
    /\ enabled_users' = enabled_users \ {u}
    /\ UNCHANGED <<send_fn_set, recorded, delivered, last_send, trig_run>>
    /\ UNCHANGED notTrigVars

\* for user_id in user_ids, up to await handle.message_fn: the users already
\* recorded today are passed over.
RECURSIVE TrigForUsers(_, _)
TrigForUsers(us, rec) ==
    IF us = <<>> THEN TrigIdle
    ELSE IF Head(us) \in rec THEN TrigForUsers(Tail(us), rec)
    ELSE [pc |-> "message", users |-> us]

\* A tick: check_fn returned user_ids (an exception of check_fn is caught
\* and ends the call like an empty list).
RunTrigger(user_ids) ==
    /\ trig_run.pc = "idle"
    /\ trig_run' = TrigForUsers(user_ids, recorded)
    /\ trig_run' # trig_run
    /\ UNCHANGED <<send_fn_set, enabled_users, recorded, delivered, last_send>>
    /\ UNCHANGED notTrigVars

\* await handle.message_fn ends: an exception ends the call, no text moves
\* to the next user, a text goes to _send.  Without a send_fn, _send returns
\* at once and record_sent follows.
TrigMessageReturns(outcome) ==
    /\ trig_run.pc = "message"
    /\ LET u == Head(trig_run.users) IN
       CASE outcome = "raise" ->
              /\ trig_run' = TrigIdle
              /\ UNCHANGED <<recorded, last_send>>
         [] outcome = "none" ->
              /\ trig_run' = TrigForUsers(Tail(trig_run.users), recorded)
              /\ UNCHANGED <<recorded, last_send>>
         [] OTHER ->
              IF send_fn_set
              THEN /\ trig_run' = [trig_run EXCEPT !.pc = "send"]
                   /\ last_send' = [user |-> u, enabled |-> u \in enabled_users]
                   /\ UNCHANGED recorded
              ELSE /\ recorded' = recorded \cup {u}
                   /\ trig_run' = TrigForUsers(Tail(trig_run.users), recorded \cup {u})
                   /\ UNCHANGED last_send
    /\ UNCHANGED <<send_fn_set, enabled_users, delivered>>
    /\ UNCHANGED notTrigVars

\* await self.send_fn ends: _send logs an exception and returns;
\* record_sent follows in both cases.
TrigSendReturns(ok) ==
    /\ trig_run.pc = "send"
    /\ LET u == Head(trig_run.users) IN
       /\ delivered' = IF ok THEN delivered \cup {u} ELSE delivered
       /\ recorded' = recorded \cup {u}
       /\ trig_run' = TrigForUsers(Tail(trig_run.users), recorded \cup {u})
    /\ UNCHANGED <<send_fn_set, enabled_users, last_send>>
    /\ UNCHANGED notTrigVars

NextTrig ==
    \/ \E u \in TrigUsers : EnableUser(u)
    \/ \E u \in TrigUsers : DisableUser(u)
    \/ \E user_ids \in TrigUserLists : RunTrigger(user_ids)
    \/ \E outcome \in {"text", "none", "raise"} : TrigMessageReturns(outcome)
    \/ \E ok \in BOOLEAN : TrigSendReturns(ok)

(***************************************************************************)
(* MemorySession.extract_if_needed (memory/session.py) over the            *)
(* ConversationBuffer (memory/buffer.py) and an extractor                  *)
(* (memory/extractor.py).                                                  *)
(***************************************************************************)
\* trigger_count of a MemorySession built with the defaults.
TriggerCount == 5

NoExtract == [drained |-> <<>>, outcome |-> None]

InitExt ==
    /\ ext_added = 0
    /\ ext_buffer = <<>>
    /\ ext_meta = FALSE
    /\ ext_merged = {}
    /\ ext_op = NoExtract

\* add_message: one more entry in the buffer.
ExtAddMessage ==
    /\ ext_added < MaxBuffered
    /\ ext_added' = ext_added + 1
    /\ ext_buffer' = Append(ext_buffer, ext_added + 1)
    /\ UNCHANGED <<ext_meta, ext_merged, ext_op>>
    /\ UNCHANGED notExtVars

\* ConversationBuffer.should_extract; elapsed: trigger_interval has passed
\* since the last extraction.
ShouldExtract(elapsed) ==
    IF ext_buffer = <<>> THEN FALSE
    ELSE IF Len(ext_buffer) >= TriggerCount THEN TRUE
    ELSE IF ext_meta THEN elapsed
    ELSE TRUE

\* extract_if_needed with an extractor set.  outcome is what the extractor
\* does with the drained entries: a delta, an empty dict (also the answer of
\* LLMMemoryExtractor when its LLM fails), or an exception.
ExtractIfNeeded(outcome, elapsed) ==
    /\ IF ~ShouldExtract(elapsed)
       THEN /\ ext_op' = [drained |-> <<>>, outcome |-> "not_needed"]
            /\ UNCHANGED <<ext_buffer, ext_meta, ext_merged>>
       ELSE /\ ext_buffer' = <<>>
            /\ ext_meta' = TRUE
            /\ ext_merged' = IF outcome = "delta"
                             THEN ext_merged \cup {ext_buffer[i] : i \in 1..Len(ext_buffer)}
                             ELSE ext_merged
            /\ ext_op' = [drained |-> ext_buffer, outcome |-> outcome]
    /\ ext_op' # ext_op \/ ext_buffer' # ext_buffer
    /\ UNCHANGED ext_added
    /\ UNCHANGED notExtVars

NextExt ==
    \/ ExtAddMessage
    \/ \E outcome \in {"delta", "empty", "raise"}, elapsed \in BOOLEAN :
          ExtractIfNeeded(outcome, elapsed)

(***************************************************************************)
(* InMemoryStore (memory/store.py) and SQLiteMemoryStore                   *)
(* (memory/store_sqlite.py) side by side: one namespace, the KV key "v"    *)
(* and the list key "l", every operation made on both stores.              *)
(***************************************************************************)
InitEq ==
    /\ eq_mem = [kv |-> None, has_list |-> FALSE, list |-> <<>>]
    /\ eq_sql = [kv |-> None, list |-> <<>>]
    /\ eq_last = [op |-> None, mem |-> None, sql |-> None]

\* InMemoryStore: self._lists[namespace][key] creates the key when it reads it.
MemTouched == [eq_mem EXCEPT !.has_list = TRUE]

\* list_keys of each store, as a set.
MemListKeys ==
    (IF eq_mem.kv # None THEN {"v"} ELSE {}) \cup (IF eq_mem.has_list THEN {"l"} ELSE {})

SqlListKeys ==
    (IF eq_sql.kv # None THEN {"v"} ELSE {}) \cup (IF eq_sql.list # <<>> THEN {"l"} ELSE {})

\* InMemoryStore.get_list: items[offset:] if offset, then items[:limit] if limit > 0.
MemGetList(lst, limit, offset) ==
    LET from == IF offset # 0 THEN PySliceFrom(lst, offset) ELSE lst
    IN IF limit > 0 THEN SubSeq(from, 1, Min(limit, Len(from))) ELSE from

\* SQLiteMemoryStore.get_list: LIMIT limit OFFSET offset if limit > 0, else
\* LIMIT -1 OFFSET offset if offset > 0.
SqlGetList(lst, limit, offset) ==
    LET skip == IF limit > 0 THEN Max(offset, 0)
                ELSE IF offset > 0 THEN offset ELSE 0
        from == SubSeq(lst, Min(skip, Len(lst)) + 1, Len(lst))
    IN IF limit > 0 THEN SubSeq(from, 1, Min(limit, Len(from))) ELSE from

EqSet(value) ==
    /\ eq_mem' = [eq_mem EXCEPT !.kv = value]
    /\ eq_sql' = [eq_sql EXCEPT !.kv = value]
    /\ eq_last' = [op |-> "set", mem |-> None, sql |-> None]
    /\ UNCHANGED notEqVars

EqGet ==
    /\ eq_last' = [op |-> "get", mem |-> eq_mem.kv, sql |-> eq_sql.kv]
    /\ UNCHANGED <<eq_mem, eq_sql>>
    /\ UNCHANGED notEqVars

EqDelete ==
    /\ eq_mem' = [eq_mem EXCEPT !.kv = None]
    /\ eq_sql' = [eq_sql EXCEPT !.kv = None]
    /\ eq_last' = [op |-> "delete", mem |-> None, sql |-> None]
    /\ UNCHANGED notEqVars

EqListKeys ==
    /\ eq_last' = [op |-> "list_keys", mem |-> MemListKeys, sql |-> SqlListKeys]
    /\ UNCHANGED <<eq_mem, eq_sql>>
    /\ UNCHANGED notEqVars

EqAppend(item) ==
    /\ Len(eq_mem.list) < MaxEqLen /\ Len(eq_sql.list) < MaxEqLen
    /\ eq_mem' = [MemTouched EXCEPT !.list = Append(@, item)]
    /\ eq_sql' = [eq_sql EXCEPT !.list = Append(@, item)]
    /\ eq_last' = [op |-> "append", mem |-> None, sql |-> None]
    /\ UNCHANGED notEqVars

EqGetList(limit, offset) ==
    /\ eq_mem' = MemTouched
    /\ eq_last' = [op |-> "get_list", mem |-> MemGetList(eq_mem.list, limit, offset),
                                      sql |-> SqlGetList(eq_sql.list, limit, offset)]
    /\ UNCHANGED eq_sql
    /\ UNCHANGED notEqVars

EqTrimList(max_size) ==
    /\ eq_mem' = [MemTouched EXCEPT !.list = TrimInMemory(@, max_size)]
    /\ eq_sql' = [eq_sql EXCEPT !.list = TrimSQLite(@, max_size)]
    /\ eq_last' = [op |-> "trim_list", mem |-> None, sql |-> None]
    /\ UNCHANGED notEqVars

EqClearList ==
    /\ eq_mem' = [MemTouched EXCEPT !.list = <<>>]
    /\ eq_sql' = [eq_sql EXCEPT !.list = <<>>]
    /\ eq_last' = [op |-> "clear_list", mem |-> None, sql |-> None]
    /\ UNCHANGED notEqVars

EqListLength ==
    /\ eq_mem' = MemTouched
    /\ eq_last' = [op |-> "list_length", mem |-> Len(eq_mem.list), sql |-> Len(eq_sql.list)]
    /\ UNCHANGED eq_sql
    /\ UNCHANGED notEqVars

NextEq ==
    \/ EqSet("x")
    \/ EqGet
    \/ EqDelete
    \/ EqListKeys
    \/ \E item \in Items : EqAppend(item)
    \/ \E limit \in 0..MaxEqLen, offset \in 0..MaxEqLen : EqGetList(limit, offset)
    \/ \E max_size \in 0..MaxEqLen : EqTrimList(max_size)
    \/ EqClearList
    \/ EqListLength

(***************************************************************************)
(* The specifications.  A component that a specification does not move is  *)
(* held in one state of its own Init.                                      *)
(***************************************************************************)
LoopAtRest ==
    InitLoop /\ max_turns = 0 /\ ~hooks /\ guardrails = NoGuardrails

HandoffAtRest ==
    InitHandoff /\ ~idempotency_cache /\ ~platform_filter

MCPAtRest ==
    InitMCP /\ server_tools = [sv \in ServerNames |-> <<"read_file">>]

BufferAtRest ==
    InitBuffer /\ ~store_suspends

\* Two sessions of one agent with two users.
TwoUsers ==
    [s \in Sessions |-> [agent_id |-> "bot", user_id |-> IF s = 1 THEN "u1" ELSE "u2"]]

\* Two sessions whose ids hold the separator.
TwoSplits ==
    [s \in Sessions |-> IF s = 1 THEN [agent_id |-> "a", user_id |-> "b:c"]
                                  ELSE [agent_id |-> "a:b", user_id |-> "c"]]

MemAtRest ==
    InitMem /\ store_impl = "InMemoryStore" /\ session_ids = TwoUsers /\ max_messages = 2

CallAtRest ==
    InitCall /\ call_max_retries = DefaultMaxRetries

GuardAtRest ==
    InitGuard /\ input_guards = <<>> /\ ctx_text = "hello"

SchedAtRest == InitSched

OrchAtRest ==
    InitOrch /\ orch.mode = "tool_based" /\ orch.entry_agent_id = "a" /\ ~orch.coordinator_llm_fn
        /\ orch.owner_id = "dev1"

TraceAtRest == InitTrace /\ tracer_enabled

StdioAtRest == InitStdio

UpdAtRest == InitUpd /\ upd_store = "InMemoryStore" /\ upd_init = Absent /\ upd_cache = Absent

TrigAtRest == InitTrig /\ send_fn_set

ExtAtRest == InitExt

EqAtRest == InitEq

InitSpecLoop == InitLoop /\ HandoffAtRest /\ MCPAtRest /\ BufferAtRest /\ MemAtRest /\ CallAtRest /\ GuardAtRest /\ SchedAtRest /\ OrchAtRest /\ TraceAtRest /\ StdioAtRest /\ UpdAtRest /\ TrigAtRest /\ ExtAtRest /\ EqAtRest
SpecLoop == InitSpecLoop /\ [][NextLoop]_vars

\* AgentLoop.run with an LLM that asks for one tool.  run is one coroutine
\* whose callbacks return: it keeps taking its next step.
InitSpecLoopFair == LoopStart(SingleToolLLMs) /\ HandoffAtRest /\ MCPAtRest /\ BufferAtRest /\ MemAtRest /\ CallAtRest /\ GuardAtRest /\ SchedAtRest /\ OrchAtRest /\ TraceAtRest /\ StdioAtRest /\ UpdAtRest /\ TrigAtRest /\ ExtAtRest /\ EqAtRest
SpecLoopFair == InitSpecLoopFair /\ [][NextLoop]_vars /\ WF_vars(NextLoop)

InitSpecHandoff == InitHandoff /\ LoopAtRest /\ MCPAtRest /\ BufferAtRest /\ MemAtRest /\ CallAtRest /\ GuardAtRest /\ SchedAtRest /\ OrchAtRest /\ TraceAtRest /\ StdioAtRest /\ UpdAtRest /\ TrigAtRest /\ ExtAtRest /\ EqAtRest
SpecHandoff == InitSpecHandoff /\ [][NextHandoff]_vars

InitSpecMCP == InitMCP /\ LoopAtRest /\ HandoffAtRest /\ BufferAtRest /\ MemAtRest /\ CallAtRest /\ GuardAtRest /\ SchedAtRest /\ OrchAtRest /\ TraceAtRest /\ StdioAtRest /\ UpdAtRest /\ TrigAtRest /\ ExtAtRest /\ EqAtRest
SpecMCP == InitSpecMCP /\ [][NextMCP]_vars

InitSpecBuffer == InitBuffer /\ LoopAtRest /\ HandoffAtRest /\ MCPAtRest /\ MemAtRest /\ CallAtRest /\ GuardAtRest /\ SchedAtRest /\ OrchAtRest /\ TraceAtRest /\ StdioAtRest /\ UpdAtRest /\ TrigAtRest /\ ExtAtRest /\ EqAtRest
SpecBuffer == InitSpecBuffer /\ [][NextBuffer]_vars

NotMemAtRest == LoopAtRest /\ HandoffAtRest /\ MCPAtRest /\ BufferAtRest /\ CallAtRest /\ GuardAtRest /\ SchedAtRest /\ OrchAtRest /\ TraceAtRest /\ StdioAtRest /\ UpdAtRest /\ TrigAtRest /\ ExtAtRest /\ EqAtRest

InitSpecCall ==
    InitCall /\ LoopAtRest /\ HandoffAtRest /\ MCPAtRest /\ BufferAtRest /\ MemAtRest /\ GuardAtRest /\ SchedAtRest /\ OrchAtRest /\ TraceAtRest /\ StdioAtRest /\ UpdAtRest /\ TrigAtRest /\ ExtAtRest /\ EqAtRest
SpecCall == InitSpecCall /\ [][NextCall]_vars

InitSpecStore ==
    InitMem /\ session_ids = TwoUsers /\ max_messages = 2 /\ NotMemAtRest
SpecStore == InitSpecStore /\ [][NextStore]_vars

InitSpecLongTerm ==
    InitMem /\ session_ids = TwoUsers /\ max_messages = 2 /\ NotMemAtRest
SpecLongTerm == InitSpecLongTerm /\ [][NextLongTerm]_vars

InitSpecSession ==
    InitMem /\ session_ids \in {TwoUsers, TwoSplits} /\ NotMemAtRest
SpecSession == InitSpecSession /\ [][NextSession]_vars

\* GuardrailManager.check_input in parallel mode, the guards finishing in any order.
InitSpecGuard ==
    InitGuard /\ LoopAtRest /\ HandoffAtRest /\ MCPAtRest /\ BufferAtRest /\ MemAtRest /\ CallAtRest /\ SchedAtRest /\ OrchAtRest /\ TraceAtRest /\ StdioAtRest /\ UpdAtRest /\ TrigAtRest /\ ExtAtRest /\ EqAtRest

SpecGuard == InitSpecGuard /\ [][NextGuard]_vars

\* ProactiveScheduler: start and stop calls, poll tasks, the clock.
InitSpecSched ==
    InitSched /\ LoopAtRest /\ HandoffAtRest /\ MCPAtRest /\ BufferAtRest /\ MemAtRest /\ CallAtRest /\ GuardAtRest /\ OrchAtRest /\ TraceAtRest /\ StdioAtRest /\ UpdAtRest /\ TrigAtRest /\ ExtAtRest /\ EqAtRest

SpecSched == InitSpecSched /\ [][NextSched]_vars

\* AgentOrchestrator.run in both modes.
InitSpecOrch ==
    InitOrch /\ LoopAtRest /\ HandoffAtRest /\ MCPAtRest /\ BufferAtRest /\ MemAtRest /\ CallAtRest /\ GuardAtRest /\ SchedAtRest /\ TraceAtRest /\ StdioAtRest /\ UpdAtRest /\ TrigAtRest /\ ExtAtRest /\ EqAtRest

SpecOrch == InitSpecOrch /\ [][NextOrch]_vars

\* Tracer: spans entered and left, tracing switched on and off, new traces.
InitSpecTrace ==
    InitTrace /\ LoopAtRest /\ HandoffAtRest /\ MCPAtRest /\ BufferAtRest /\ MemAtRest /\ CallAtRest /\ GuardAtRest /\ SchedAtRest /\ OrchAtRest /\ StdioAtRest /\ UpdAtRest /\ TrigAtRest /\ ExtAtRest /\ EqAtRest

SpecTrace == InitSpecTrace /\ [][NextTrace]_vars

\* MCPClient over a StdioTransport: two tasks calling, the child answering.
InitSpecStdio ==
    InitStdio /\ LoopAtRest /\ HandoffAtRest /\ MCPAtRest /\ BufferAtRest /\ MemAtRest /\ CallAtRest /\ GuardAtRest /\ SchedAtRest /\ OrchAtRest /\ TraceAtRest /\ UpdAtRest /\ TrigAtRest /\ ExtAtRest /\ EqAtRest

SpecStdio == InitSpecStdio /\ [][NextStdio]_vars

\* One LongTermMemory, two tasks calling update.
InitSpecUpd ==
    InitUpd /\ LoopAtRest /\ HandoffAtRest /\ MCPAtRest /\ BufferAtRest /\ MemAtRest /\ CallAtRest /\ GuardAtRest /\ SchedAtRest /\ OrchAtRest /\ TraceAtRest /\ StdioAtRest /\ TrigAtRest /\ ExtAtRest /\ EqAtRest

SpecUpd == InitSpecUpd /\ [][NextUpd]_vars

\* _run_trigger for one trigger: enablement, messages, sends, the record.
InitSpecTrig ==
    InitTrig /\ LoopAtRest /\ HandoffAtRest /\ MCPAtRest /\ BufferAtRest /\ MemAtRest /\ CallAtRest /\ GuardAtRest /\ SchedAtRest /\ OrchAtRest /\ TraceAtRest /\ StdioAtRest /\ UpdAtRest /\ ExtAtRest /\ EqAtRest

SpecTrig == InitSpecTrig /\ [][NextTrig]_vars

\* One MemorySession: messages added, extract_if_needed called.
InitSpecExt ==
    InitExt /\ LoopAtRest /\ HandoffAtRest /\ MCPAtRest /\ BufferAtRest /\ MemAtRest /\ CallAtRest /\ GuardAtRest /\ SchedAtRest /\ OrchAtRest /\ TraceAtRest /\ StdioAtRest /\ UpdAtRest /\ TrigAtRest /\ EqAtRest

SpecExt == InitSpecExt /\ [][NextExt]_vars

\* The two stores given the same sequence of operations.
InitSpecEq ==
    InitEq /\ LoopAtRest /\ HandoffAtRest /\ MCPAtRest /\ BufferAtRest /\ MemAtRest /\ CallAtRest /\ GuardAtRest /\ SchedAtRest /\ OrchAtRest /\ TraceAtRest /\ StdioAtRest /\ UpdAtRest /\ TrigAtRest /\ ExtAtRest

SpecEq == InitSpecEq /\ [][NextEq]_vars

(***************************************************************************)
(* Claims about AgentLoop.run.                                             *)
(***************************************************************************)
Returned == pc = "done"

\* Every assistant message with N tool_calls is followed at once by exactly N
\* tool messages carrying the ids of those calls, in their order.
WellPaired(msgs) ==
    \A i \in 1..Len(msgs) :
        (msgs[i].role = "assistant" /\ msgs[i].tool_calls # <<>>) =>
            LET N == Len(msgs[i].tool_calls) IN
            /\ i + N <= Len(msgs)
            /\ \A k \in 1..N : /\ msgs[i + k].role = "tool"
                                /\ msgs[i + k].tool_call_id = msgs[i].tool_calls[k]
            /\ (i + N + 1 <= Len(msgs) => msgs[i + N + 1].role # "tool")

\* C1: for every run with a non-empty tool registry, in the returned message
\* list every assistant message carrying N tool_calls is immediately followed
\* by exactly N tool-role messages whose tool_call_id values are the ids of
\* those tool_calls, in the order of the tool_calls list.
C1_ToolMessagesFollowCalls ==
    (Returned /\ tool_registry # {}) => WellPaired(result.messages)

\* The guard check of the first turn rejects the input of this run.
InputRejected ==
    /\ guardrails.set
    /\ turn_number >= 1
    /\ ~RunGuards(guardrails, guardrails.input_guards, user_input).passed

TurnCallCounts(turns) == [i \in 1..Len(turns) |-> Len(turns[i].tool_calls)]

\* C10: for every run, the returned tool_calls_count equals the sum, over the
\* returned turn records, of the number of tool-call records in each turn.
C10_ToolCallsCountIsSum ==
    Returned => result.tool_calls_count = SumSeq(TurnCallCounts(result.turns))

\* run has ended: it returned a result or an exception left it.
Ended == pc \in {"done", "raised"}

\* C11: every run ends, a returned result has total_turns <= max_turns, and
\* the LLM callback is invoked at most max_turns times, also when the LLM
\* asks for tool calls on every turn.
C11_RunEndsWithinMaxTurns ==
    /\ [](llm_calls <= max_turns /\ turn_number <= max_turns)
    /\ [](Returned => result.total_turns <= max_turns)
    /\ <>[]Ended

\* The LLM asked for tool calls on every one of max_turns turns.
C11_Witness ==
    /\ Returned
    /\ max_turns = MaxTurnsBound
    /\ result.stopped_reason = "max_turns"
    /\ llm_calls = max_turns
    /\ result.total_turns = max_turns
    /\ \A i \in 1..Len(result.turns) : result.turns[i].tool_calls # <<>>

\* The tool call about to be dispatched reaches tool_registry.execute and
\* fails there: its tool is not registered, or its handler raises.
ToolFails ==
    /\ pc = "tools"
    /\ tc_i <= Len(tool_calls)
    /\ ParseArgs(tool_calls[tc_i].arguments).raises = None
    /\ Execute(tool_registry, tool_calls[tc_i].name).raises # None

\* A hook callback raised and ended the run.
HookFailed ==
    \/ raised = "HookError"
    \/ Returned /\ result.stopped_reason = "error"
                /\ result.final_output = "Error: HookError"

\* A tool call of the turn under way has failed.
FailedInTurn ==
    /\ pc = "tools"
    /\ \E i \in 1..Len(turn.tool_calls) : turn.tool_calls[i].error # None

\* C12: a tool call that fails (tool not registered, or handler raising)
\* never aborts the loop: its error text is appended as a tool message for
\* its call id, the next tool call of the turn is dispatched, and the LLM is
\* called again when turns remain.  Only a raising hook callback ends the
\* run here.
C12_ToolFailureDoesNotAbort ==
    /\ [][ToolFails =>
            \/ HookFailed'
            \/ /\ pc' = "tools"
               /\ tc_i' = tc_i + 1
               /\ messages' = Append(messages,
                     [Msg("tool", "Error: "
                            \o Execute(tool_registry, tool_calls[tc_i].name).raises)
                        EXCEPT !.tool_call_id = tool_calls[tc_i].id])]_vars
    /\ [](Returned => result.final_output \notin {"Error: KeyError", "Error: RuntimeError"})
    /\ \A n \in 0..MaxTurnsBound :
          (FailedInTurn /\ turn_number < max_turns /\ llm_calls = n)
              ~> (llm_calls = n + 1 \/ HookFailed)

\* The first call of turn 1 named an unregistered tool, the second call of
\* that turn was dispatched too, and the LLM was called on turn 2.
C12_Witness ==
    /\ llm_calls >= 2
    /\ Len(result.turns) >= 1
    /\ Len(result.turns[1].tool_calls) = 2
    /\ result.turns[1].tool_calls[1].error = "KeyError"
    /\ \E i \in 1..Len(messages) :
          /\ messages[i].role = "tool"
          /\ messages[i].tool_call_id = CallId(1)
          /\ messages[i].content = "Error: KeyError"

\* The LLM callback raised in this run.
LLMRaised == caught = "LLMError"

\* C13 as stated: when the LLM callback raises, run returns a result with
\* stopped_reason = error and final_output equal to the exception text.
C13_LLMErrorReturnsExceptionText ==
    LLMRaised => /\ Returned
                 /\ result.stopped_reason = "error"
                 /\ result.final_output = "LLMError"

\* C13: when the LLM callback raises, run returns a result with
\* stopped_reason = error and final_output "Error: " followed by the
\* exception text, unless the on_error hook raises, whose exception then
\* leaves run; either way no further LLM call or tool dispatch happens.
C13_LLMErrorEndsRun ==
    /\ [](LLMRaised =>
            \/ /\ Returned
               /\ result.stopped_reason = "error"
               /\ result.final_output = "Error: " \o "LLMError"
            \/ /\ hooks
               /\ pc = "raised"
               /\ raised = "HookError")
    /\ [][LLMRaised => /\ llm_calls' = llm_calls
                        /\ tool_execs' = tool_execs]_vars

\* The LLM callback raised on the second turn, after a turn of tool calls.
C13_Witness ==
    /\ LLMRaised
    /\ Returned
    /\ turn_number = 2
    /\ llm_calls = 2
    /\ tool_execs >= 1
    /\ result.stopped_reason = "error"

\* The last llm_output of the turns that is a text, or None.
RECURSIVE LastText(_)
LastText(turns) ==
    IF turns = <<>> THEN None
    ELSE IF Or(Last(turns).llm_output, "") # "" THEN Last(turns).llm_output
    ELSE LastText(SubSeq(turns, 1, Len(turns) - 1))

\* C24: when run returns because max_turns was reached, stopped_reason is
\* max_turns and final_output is the last non-null LLM text produced in the
\* run, if any turn produced one.
C24_MaxTurnsOutputIsLastText ==
    (Returned /\ max_turns > 0 /\ turn_number = max_turns /\ result.stopped_reason = "max_turns")
        => (LastText(result.turns) # None => result.final_output = LastText(result.turns))

\* C39: when run stops with stopped_reason completed, the returned message
\* list ends with an assistant message whose content is final_output.
C39_MessagesEndWithFinalOutput ==
    (Returned /\ result.stopped_reason = "completed") =>
        /\ result.messages # <<>>
        /\ Last(result.messages).role = "assistant"
        /\ Last(result.messages).content = result.final_output

(***************************************************************************)
(* Claims about HandoffEngine.handoff.                                     *)
(***************************************************************************)
HDone(t) == task[t].pc = "done"

Registered(request) == RegistryGet(request.to_agent) # {}

SameRequestId(t1, t2) == task[t1].request.request_id = task[t2].request.request_id

\* The target ran for the call of t: one of its filters or its LLM was invoked.
TargetRan(t) == task[t].ran_input_filter \/ task[t].ran_llm

\* C2: when two handoff calls with one request_id run concurrently on an
\* engine with an idempotency cache, the target executes once: the call
\* that started second does not run the target, has cache_hit = true and
\* the same output as the first.
C2_ConcurrentSameIdRunsOnce ==
    \A t1, t2 \in Tasks :
        (/\ t1 # t2 /\ idempotency_cache /\ HDone(t1) /\ HDone(t2)
         /\ SameRequestId(t1, t2)
         /\ task[t2].overlapped
         /\ PreCheck(policy, task[t1].request) = None)
        => /\ ~TargetRan(t2)
           /\ task[t2].result.cache_hit
           /\ task[t2].result.output = task[t1].result.output

\* The call of t2 started after the call of t1 had returned, no later than
\* ttl after it.
SequentialWithinTTL(t1, t2) ==
    /\ t1 # t2 /\ idempotency_cache /\ HDone(t1) /\ HDone(t2)
    /\ SameRequestId(t1, t2)
    /\ task[t2].after
    /\ task[t2].started_at - task[t1].returned_at <= ttl

\* C6: on an engine with an idempotency cache, a second handoff call with
\* the request_id of a call that has returned, made within the TTL, returns
\* the first call's result with cache_hit = true and runs nothing.
C6_SequentialSameIdHitsCache ==
    \A t1, t2 \in Tasks :
        SequentialWithinTTL(t1, t2)
        => /\ task[t2].result = [task[t1].result EXCEPT !.cache_hit = TRUE]
           /\ ~TargetRan(t2) /\ ~task[t2].ran_platform_filter
           /\ Registered(task[t1].request)
                => llm_runs[task[t1].request.to_agent] <= 1

C6_Witness ==
    \E t1, t2 \in Tasks :
        /\ SequentialWithinTTL(t1, t2)
        /\ task[t1].ran_llm /\ task[t1].result.status = "success"
        /\ task[t2].started_at = task[t1].returned_at + ttl
        /\ task[t2].result.cache_hit
        /\ task[t2].result.output = "out_1"

\* The loop condition in the claim's words.
LoopCondition(request) ==
    \/ request.hop_count + 1 > policy.max_hop_count
    \/ InSeq(request.to_agent, request.visited_agents)

\* C7 as stated: for every handoff request with hop_count + 1 >
\* max_hop_count or to_agent in visited_agents, the returned result has
\* error code LOOP_DETECTED.
C7_LoopConditionGivesLoopDetected ==
    \A t \in Tasks :
        (HDone(t) /\ LoopCondition(task[t].request))
        => task[t].result.error = "LOOP_DETECTED"

AccessDenied(request) ==
    /\ Registered(request)
    /\ CheckAccess(policy, request, Agents[request.to_agent]) # None

\* C7 (amended): for every handoff request that is not answered from the
\* idempotency cache, whose target is registered and admits the caller,
\* hop_count + 1 > max_hop_count or to_agent in visited_agents gives a
\* result with status loop_detected and error code LOOP_DETECTED.
C7_LoopDetectedAfterResolutionAndAccess ==
    \A t \in Tasks :
        (/\ HDone(t) /\ LoopCondition(task[t].request)
         /\ ~task[t].result.cache_hit
         /\ Registered(task[t].request) /\ ~AccessDenied(task[t].request))
        => /\ task[t].result.error = "LOOP_DETECTED"
           /\ task[t].result.status = "loop_detected"

C7_Witness ==
    \E t \in Tasks :
        /\ HDone(t) /\ ~task[t].result.cache_hit
        /\ task[t].request.to_agent = "a"
        /\ task[t].request.hop_count + 1 <= policy.max_hop_count
        /\ InSeq("a", task[t].request.visited_agents)
        /\ task[t].result.error = "LOOP_DETECTED"

RejectCodes == {"NOT_FOUND", "NOT_ALLOWED", "SAFETY_BLOCK", "LOOP_DETECTED"}

\* A request that target resolution, the access policy or the loop policy
\* rejects.
Rejected(request) ==
    ~Registered(request) \/ AccessDenied(request) \/ LoopCondition(request)

\* C8: a handoff that target resolution, the access policy or the loop
\* policy rejects never runs the target: no filter of the target and no LLM
\* callback is invoked for it, and the call returns the rejection.
C8_RejectedNeverRunsTarget ==
    \A t \in Tasks :
        (task[t].pc # "idle" /\ Rejected(task[t].request))
        => /\ ~TargetRan(t) /\ ~task[t].ran_platform_filter
           /\ (HDone(t) /\ ~task[t].result.cache_hit)
                => task[t].result.error \in RejectCodes

C8_Witness ==
    \E t \in Tasks :
        /\ HDone(t) /\ ~task[t].result.cache_hit
        /\ task[t].request.to_agent = "a"
        /\ task[t].request.hop_count = 2
        /\ task[t].request.visited_agents = <<"a", "b">>
        /\ task[t].result.status = "loop_detected"
        /\ llm_runs["a"] = 0

\* C9: every failure inside a handoff comes back as an error result: a
\* filter raising, the target's LLM raising or the target's loop raising
\* gives error code TOOL_ERROR, the deadline expiring gives TIMEOUT.
C9_FailuresBecomeErrorResults ==
    \A t \in Tasks :
        (HDone(t) /\ ~task[t].result.cache_hit)
        => /\ task[t].failure \in {"filter_raised", "llm_raised", "loop_raised"}
                => /\ task[t].result.error = "TOOL_ERROR"
                   /\ task[t].result.status = "error"
           /\ task[t].failure = "deadline" => task[t].result.error = "TIMEOUT"

\* C27: the idempotency cache stores a result only when the handoff
\* succeeded: a handoff answered from the cache (cache_hit) carries a success,
\* never an earlier failure.
C27_CacheHoldsOnlySuccess ==
    \A t \in Tasks :
        (task[t].pc = "done" /\ task[t].result.cache_hit)
            => task[t].result.status = "success"

\* C29: a result whose error code is TIMEOUT, MODEL_ERROR or TOOL_ERROR is
\* retryable; one whose code is NOT_FOUND, NOT_ALLOWED, SAFETY_BLOCK or
\* LOOP_DETECTED is not.
C29_RetryableByCode ==
    \A t \in Tasks :
        (task[t].pc = "done" /\ task[t].result.error # None)
            => /\ task[t].result.error \in {"TIMEOUT", "MODEL_ERROR", "TOOL_ERROR"}
                    => task[t].result.retryable
               /\ task[t].result.error \in {"NOT_FOUND", "NOT_ALLOWED", "SAFETY_BLOCK",
                                             "LOOP_DETECTED"}
                    => ~task[t].result.retryable

(***************************************************************************)
(* Claims about the MCP tools in the registry.                             *)
(***************************************************************************)
\* The server and the tool an injected name mcp.{s}.{t} stands for.
Target(name) ==
    CHOOSE st \in [server : ServerNames, tool : McpTools] :
        McpToolName(st.server, st.tool) = name

\* C4: executing a registry tool named mcp.{s}.{t} sends tools/call for t
\* to server s and to no other server, and does send it when s is connected
\* and the registry holds the manager's current tool; this with one tool
\* name on several servers, and after refresh_tools and inject_tools.
C4_ToolCallGoesToNamedServer ==
    last_call.name # None
    => /\ last_call.sent \subseteq {Target(last_call.name)}
       /\ (last_call.connected /\ last_call.current)
            => last_call.sent = {Target(last_call.name)}

(***************************************************************************)
(* Claims about the MemoryStore and the memory layers.                     *)
(***************************************************************************)
\* The last max_size items of a list, all of it when it is shorter.
Suffix(lst, max_size) ==
    SubSeq(lst, Len(lst) - Min(Len(lst), max_size) + 1, Len(lst))

\* C14: for both stores, every list and every N: after trim_list(k, N) the
\* list holds exactly min(prev_len, N) items, the last min(prev_len, N)
\* items of the previous list in their order.
C14_TrimKeepsLastN ==
    [][mem_op'.op = "trim_list" =>
         LET ns == NS(mem_op'.s)
             prev == store_lists[ns][mem_op'.key]
             left == store_lists'[ns][mem_op'.key]
         IN /\ Len(left) = Min(Len(prev), mem_op'.n)
            /\ left = Suffix(prev, mem_op'.n)]_vars

\* What session s can read from the store: its short-term history, its
\* conversation buffer, its long-term memory.
Readable(s) ==
    <<store_lists[NS(s)]["short_term"], store_lists[NS(s)]["buffer"], store_kv[NS(s)]>>

\* C15: for two MemorySessions bound to different (agent_id, user_id) pairs
\* over one store, no operation made through one session changes anything
\* the other session can read.
C15_SessionsIsolated ==
    [][\A s, t \in Sessions :
          (mem_op'.s = s /\ t # s /\ session_ids[s] # session_ids[t])
              => Readable(t)' = Readable(t)]_vars

\* The keys of a value, nested ones as paths.
RECURSIVE KeyPaths(_)
KeyPaths(v) ==
    IF v.kind # "dict" THEN {}
    ELSE UNION { {<<k>>} \cup { <<k>> \o path : path \in KeyPaths(Get(v, k)) }
                 : k \in Keys(v) }

\* C16: after update(delta) then get(), every key that was present in the
\* value before the update is still present.
C16_UpdateKeepsKeys ==
    [][\A s \in Sessions :
          (mem_op'.op = "update" /\ mem_op'.s = s) =>
             \A before, after \in BOOLEAN :
                KeyPaths(LTRead(s, before)) \subseteq KeyPaths(LTRead(s, after))']_vars

\* meta.conversation_count of a value, 0 when there is none.
ConversationCount(v) == Get(Get(v, "meta"), "conversation_count").n

\* C17: every update(delta), also with a delta that holds a
\* meta.conversation_count, increases the stored meta.conversation_count
\* by exactly 1.
C17_UpdateCountsOne ==
    [][\A s \in Sessions :
          (mem_op'.op = "update" /\ mem_op'.s = s) =>
             ConversationCount(LTRead(s, FALSE)')
                 = ConversationCount(LTRead(s, FALSE)) + 1]_vars

\* The names in a registry.
RegistryNames(reg) == { td.name : td \in reg }

\* C19: inject_tools(reg) called twice in a row: the second call leaves
\* len(reg) unchanged and the registry holds no name twice.
C19_InjectTwiceSameSize ==
    LET all   == Concat(servers, sdk_tools)
        once  == Injected(registry_tools, injected_tools, all)
        twice == Injected(once.registry, once.injected, all)
    IN /\ Cardinality(RegistryNames(twice.registry)) = Cardinality(RegistryNames(once.registry))
       /\ Cardinality(twice.registry) = Cardinality(RegistryNames(twice.registry))
       /\ twice.registry = once.registry

\* inject_tools has just run with two servers connected: the registry holds
\* the tools of both next to the native one.
C19_Witness ==
    /\ Len(servers) = 2
    /\ Len(injected_tools) >= 3
    /\ \A i \in 1..Len(injected_tools) : injected_tools[i] \in RegistryNames(registry_tools)
    /\ Injected(registry_tools, injected_tools, Concat(servers, sdk_tools)).registry
         = registry_tools

\* C20: after any sequence of manager operations, remove_tools(reg) removes
\* exactly the tools the manager injected: no MCP tool is left in the
\* registry, and the other tools are in place and unchanged.
C20_RemoveToolsRemovesInjected ==
    RegistryRemove(registry_tools, injected_tools) = {NativeTool}

\* C26: after disconnect_all, server_names() (the keys of _servers) is the
\* empty list, whether it returned or raised because a close failed.
C26_DisconnectAllLeavesNoServer ==
    last_call.closed # None => servers = <<>>

\* disconnect_all raised for a failed close, with two servers connected
\* before it (tools of both are still in the registry).
C26_Witness ==
    /\ last_call.closed = "RuntimeError"
    /\ servers = <<>>
    /\ Cardinality(registry_tools) >= 3

(***************************************************************************)
(* Claims about one MCP tool invocation.                                   *)
(***************************************************************************)
\* The outcome is a transport error flagged retryable.
Retryable(outcome) ==
    outcome.kind = "MCPTransportError" /\ (outcome.status >= 500 \/ outcome.status = 429)

\* C18: in one tool invocation a retryable transport error is followed by
\* another attempt after a backoff of 0.1 * 2^(attempt - 1) s, with at most
\* max_retries retries (max_retries + 1 attempts); any other error
\* propagates at once; the first success ends the invocation.
C18_RetryPolicy ==
    /\ call_count <= call_max_retries + 1
    /\ call_count = Len(call_log)
    /\ call_sleeps = [i \in 1..Len(call_sleeps) |-> 2 ^ (i - 1)]
    /\ call_pc = "call" => Len(call_sleeps) = call_count
    /\ \A i \in 1..(Len(call_log) - 1) : Retryable(call_log[i])
    /\ call_log # <<>> =>
          LET last == Last(call_log) IN
          /\ last.kind = "result" => call_pc = "returned"
          /\ (last.kind # "result" /\ ~Retryable(last))
                => call_pc = "raised" /\ call_raised = last.kind
          /\ (Retryable(last) /\ call_count <= call_max_retries)
                => call_pc \in {"sleep", "call"}
          /\ (Retryable(last) /\ call_count = call_max_retries + 1)
                => call_pc = "raised" /\ call_raised = "RuntimeError"

\* Two retryable errors, two backoffs, then the result.
C18_Witness ==
    /\ call_pc = "returned"
    /\ call_count = 3
    /\ call_sleeps = <<1, 2>>
    /\ Retryable(call_log[1])
    /\ Retryable(call_log[2])

(***************************************************************************)
(* Claims about ConversationBuffer.                                        *)
(***************************************************************************)
InBuffer(n) == \E i \in 1..Len(buf_list) : buf_list[i] = Dumps(Entry(n))

\* C5: get_and_clear is atomic with respect to interleaved add calls: no
\* entry is returned by two calls, and once no call is in progress every
\* entry added is still in the buffer or has been returned.
C5_GetAndClearAtomic ==
    /\ \A n \in 1..MaxAdds : returned[n] <= 1
    /\ (\A t \in Tasks : gac[t].pc = "idle")
         => \A n \in 1..added : InBuffer(n) \/ returned[n] >= 1

(***************************************************************************)
(* Claims about GuardrailManager in parallel mode.                         *)
(***************************************************************************)
\* Guard i fails on the text: it returns passed = False or it raises.
GuardFails(i) ==
    LET r == ExecuteOne(input_guards[i], ctx_text) IN r.raises \/ ~r.passed

FirstFailing == CHOOSE i \in 1..Len(input_guards) :
    GuardFails(i) /\ \A j \in 1..(i - 1) : ~GuardFails(j)

\* C21: in parallel mode, when at least one input guard fails (returns
\* passed = False or raises), check_input raises InputGuardrailTriggered
\* carrying the name of the first failing guard in declaration order,
\* whatever the order in which the guards finished.
C21_ParallelNamesFirstFailing ==
    (check_pc = "done" /\ \E i \in 1..Len(input_guards) : GuardFails(i)) =>
        /\ check_out.raises = "InputGuardrailTriggered"
        /\ check_out.result.guardrail_name = input_guards[FirstFailing]

(***************************************************************************)
(* Claims about ProactiveScheduler.                                        *)
(***************************************************************************)
\* C22: for every user and trigger, send_fn is invoked at most once per
\* calendar day, over any number of poll ticks and whatever lists check_fn
\* returns.
C22_SendAtMostOncePerDay ==
    \A ut \in DOMAIN sends : sends[ut] <= 1

\* C23: an exception raised by a check_fn or a message_fn does not end the
\* poll loop: the task stays in the loop, and when the tick reaches its sleep
\* every trigger has been run in it.
C23_TriggerErrorStaysInLoop ==
    \A k \in PollTasks :
        /\ poll[k].failed => poll[k].pc \in {"check", "message", "send", "sleep"}
        /\ poll[k].pc = "sleep" => poll[k].ran = Len(Triggers)

\* A tick that follows a tick in which a callback raised; in it the first
\* trigger raised again and the second one is being run.
C23_Witness ==
    \E k \in PollTasks :
        /\ poll[k].after_failure
        /\ poll[k].failed
        /\ poll[k].pc = "check"
        /\ poll[k].trig = 2

\* C25: start while the scheduler is running creates no poll task, and at
\* most one poll loop is active at any time over any sequence of start and
\* stop calls (a task that stop cancelled runs no more of the loop).
C25_StartIdempotent ==
    /\ [](Cardinality({k \in PollTasks : Active(k)}) <= 1)
    /\ [][(sched_op' # sched_op /\ sched_op'.op = "start" /\ running)
            => (poll' = poll /\ poll_task' = poll_task /\ ~sched_op'.created)]_vars

\* start was called while the loop of an earlier start was running a tick,
\* beside a task that an earlier stop cancelled.
C25_Witness ==
    /\ sched_op = [op |-> "start", created |-> FALSE]
    /\ running
    /\ \E k \in PollTasks : poll[k].pc = "message"
    /\ \E k \in PollTasks : poll[k].pc = "cancelling"

(***************************************************************************)
(* Claims about AgentOrchestrator.run.                                     *)
(***************************************************************************)
HandoffStatuses == {"success", "error", "timeout", "denied", "loop_detected"}

\* C30: every HandoffResult returned by the orchestrator's run, in tool_based
\* or coordinator mode, and every result of HandoffEngine.handoff it
\* collected, has a status among success, error, timeout, denied,
\* loop_detected.
C30_StatusIsOneOfFive ==
    /\ \A i \in 1..Len(orch.results) : orch.results[i].status \in HandoffStatuses
    /\ orch.pc = "done" => orch_out.status \in HandoffStatuses

\* C31: in coordinator mode with execution_mode parallel, while the
\* orchestrator waits for handoffs a request has been issued to every selected
\* agent (a later request does not wait for an earlier one), and the
\* orchestrator returns the first successful result.
C31_ParallelIssuesAllAtOnce ==
    LET d == orch.decision IN
    /\ (orch.pc = "handoffs" /\ d.execution_mode = "parallel")
            => orch.issued = Len(d.selected_agents)
    /\ (orch.pc = "done" /\ d.execution_mode = "parallel"
            /\ \E i \in 1..Len(orch.results) : orch.results[i].status = "success")
            => orch_out = BestResult(orch.results, d)

\* C32: the agent catalog in the coordinator's prompt holds only agents that
\* are visible to the caller (owner_id, org_id) under the visibility rules.
C32_CatalogOnlyVisible ==
    \A id \in orch.catalog : IsVisible(Agents[id], orch.owner_id, "")

\* A handoff result that stands for a run of the target: a success, or an
\* error that only the run itself produces.
Executed(res) ==
    res.status = "success" \/ res.error \in {"TIMEOUT", "TOOL_ERROR", "MODEL_ERROR"}

\* C35: the engine executes a target only if the target is visible to the
\* caller; a private target is never executed for a caller whose owner_id
\* is empty, even when the target's owner_id is empty too.
C35_ExecutesOnlyVisible ==
    \A i \in 1..Len(orch.results) :
        Executed(orch.results[i])
            => IsVisible(Agents[orch.results[i].agent_id], orch.owner_id, "")

(***************************************************************************)
(* Tracer claims.                                                          *)
(***************************************************************************)
Closed(s) == spans[s].status \in {"ok", "error"}

\* C28: every root span (empty parent_id) is handed to the exporter exactly
\* once when it closes, whether its body returned or raised, and a span
\* that has a parent is never handed to the exporter.
C28_RootSpanExportedOnce ==
    \A s \in SpanIds :
        Closed(s) =>
            IF spans[s].parent_id = 0 THEN exported[s] = 1 ELSE exported[s] = 0

(***************************************************************************)
(* MCP transport claims.                                                   *)
(***************************************************************************)
\* C33: every response the MCP client returns to a caller is the server's
\* response to that caller's own request (same JSON-RPC id), also when an
\* earlier call on the transport timed out and its response arrives late,
\* and when two calls overlap.
C33_ResponseMatchesRequest ==
    \A t \in RpcTasks : rpc[t].pc = "returned" => rpc[t].resp = rpc[t].id

(***************************************************************************)
(* Concurrent LongTermMemory claims.                                       *)
(***************************************************************************)
\* meta.conversation_count of a stored value; the default schema has 0.
CountOf(v) ==
    IF v = Absent THEN 0 ELSE Get(Get(v, "meta"), "conversation_count").n

\* C34: when two update calls on one namespace overlap, no update is lost:
\* the value stored in the end reflects both deltas and
\* meta.conversation_count has increased by 2.
C34_NoLostUpdate ==
    (\A t \in UpdTasks : upd[t].pc = "done") =>
        /\ CountOf(upd_kv) = CountOf(upd_init) + 2
        /\ \A t \in UpdTasks : DeepMerge(upd_kv, upd[t].updates) = upd_kv

(***************************************************************************)
(* Trigger delivery claims.                                                *)
(***************************************************************************)
\* C36: a (user, trigger) pair is recorded as sent for the day only if the
\* send callback was invoked and returned without error; after a failed
\* send, or with no send callback, the pair is not recorded.
C36_RecordedOnlyIfDelivered == recorded \subseteq delivered

\* C37: the scheduler never sends a trigger's message to a user for whom
\* the trigger is disabled or was never enabled, even if check_fn returns
\* that user.
C37_SendsOnlyToEnabled == last_send # NoSend => last_send.enabled

(***************************************************************************)
(* Extraction claims.                                                      *)
(***************************************************************************)
\* C38: extract_if_needed never loses conversation entries: every entry it
\* drained from the buffer was passed to an extraction whose delta was
\* merged into long-term memory, or is still in the buffer; after an
\* extractor that raises or returns an empty delta the entries remain.
C38_DrainedEntriesNotLost ==
    \A i \in 1..Len(ext_op.drained) :
        \/ ext_op.drained[i] \in ext_merged
        \/ \E j \in 1..Len(ext_buffer) : ext_buffer[j] = ext_op.drained[i]

(***************************************************************************)
(* Store equivalence claims.                                               *)
(***************************************************************************)
\* C40: InMemoryStore and SQLiteMemoryStore are observationally equivalent:
\* after any sequence of Store operations, the same operation returns the
\* same result on both, list_keys compared as a set.
C40_StoresReturnTheSame == eq_last.mem = eq_last.sql


====
